---------------------------- MODULE Spec2Model ----------------------------
(***************************************************************************)
(* A model of Thimble (src/thimble.py), a small HTTP engine for            *)
(* MicroPython: the wire parser, the response formatter, the route table   *)
(* and resolver, the handler-result normaliser, the static file streamer   *)
(* and the per-connection task on_connect.                                 *)
(*                                                                         *)
(* Python strings and byte buffers are sequences of one-character strings. *)
(* A connection task is a sequence of atomic steps, one per stretch of     *)
(* code between two points where the coroutine suspends (reader.read,      *)
(* writer.drain, an awaited handler, wait_closed).                         *)
(***************************************************************************)
EXTENDS Integers, Sequences, FiniteSets, TLC

VARIABLES
    phase,      \* "setup" until run() is called, then "running"
    routes,     \* self.routes: the dict, as a sequence of entries in insertion order
    nroutes,    \* number of route() registrations made so far
    registered, \* the route() registrations made so far, in order
    conn,       \* per connection: the position and the locals of its on_connect task
    pure_call,  \* a call of one of the static helpers on its own: function and arguments
    pure_result \* what that call returned

vars == <<phase, routes, nroutes, registered, conn, pure_call, pure_result>>

(***************************************************************************)
(* Characters and strings                                                  *)
(***************************************************************************)
CR == "\r"
LF == "\n"
CRLF == <<CR, LF>>

\* A byte that is no valid UTF-8 start byte (0xff): bytes.decode('utf8') raises on it.
BadByte == "xFF"

\* A character outside ASCII (U+00B0, the degree sign) and the two bytes that
\* str.encode gives it; every other character here is ASCII, one byte each.
Degree == "u00B0"
DegreeBytes == <<"xC2", "xB0">>

Digits == <<"0", "1", "2", "3", "4", "5", "6", "7", "8", "9">>

UpperLetters == <<"A", "B", "C", "D", "E", "F", "G", "H", "I", "J", "K", "L", "M",
                  "N", "O", "P", "Q", "R", "S", "T", "U", "V", "W", "X", "Y", "Z">>

LowerLetters == <<"a", "b", "c", "d", "e", "f", "g", "h", "i", "j", "k", "l", "m",
                  "n", "o", "p", "q", "r", "s", "t", "u", "v", "w", "x", "y", "z">>

IsDigit(c) == \E i \in 1..Len(Digits) : Digits[i] = c

\* str.lower() and str.upper() on one character
LowerChar(c) ==
    IF \E i \in 1..Len(UpperLetters) : UpperLetters[i] = c
    THEN LowerLetters[CHOOSE i \in 1..Len(UpperLetters) : UpperLetters[i] = c]
    ELSE c

UpperChar(c) ==
    IF \E i \in 1..Len(LowerLetters) : LowerLetters[i] = c
    THEN UpperLetters[CHOOSE i \in 1..Len(LowerLetters) : LowerLetters[i] = c]
    ELSE c

Lower(s) == [i \in 1..Len(s) |-> LowerChar(s[i])]
Upper(s) == [i \in 1..Len(s) |-> UpperChar(s[i])]

\* s[a:b] of Python, with 1-based inclusive bounds
Slice(s, a, b) == IF a > b THEN <<>> ELSE SubSeq(s, a, b)

\* whether sub occurs in s at position i
OccursAt(s, sub, i) ==
    /\ i >= 1
    /\ i + Len(sub) - 1 <= Len(s)
    /\ \A k \in 1..Len(sub) : s[i + k - 1] = sub[k]

\* sub in s
Contains(s, sub) == \E i \in 1..(Len(s) + 1) : OccursAt(s, sub, i)

\* s.find(sub), 1-based; 0 when absent
Find(s, sub) ==
    IF Contains(s, sub)
    THEN CHOOSE i \in 1..(Len(s) + 1) :
             /\ OccursAt(s, sub, i)
             /\ \A j \in 1..(i - 1) : ~OccursAt(s, sub, j)
    ELSE 0

EndsWith(s, suffix) ==
    /\ Len(suffix) <= Len(s)
    /\ OccursAt(s, suffix, Len(s) - Len(suffix) + 1)

\* s.split(sep): every piece, empty ones included
RECURSIVE Split(_, _)
Split(s, sep) ==
    LET i == Find(s, sep)
    IN  IF i = 0
        THEN <<s>>
        ELSE <<Slice(s, 1, i - 1)>> \o Split(Slice(s, i + Len(sep), Len(s)), sep)

\* s.split(sep, maxsplit): at most maxsplit cuts, the rest left whole
RECURSIVE SplitMax(_, _, _)
SplitMax(s, sep, maxsplit) ==
    LET i == Find(s, sep)
    IN  IF i = 0 \/ maxsplit = 0
        THEN <<s>>
        ELSE <<Slice(s, 1, i - 1)>>
                 \o SplitMax(Slice(s, i + Len(sep), Len(s)), sep, maxsplit - 1)

IsSpace(c) == c \in {" ", "\t", CR, LF}

\* s.strip()
RECURSIVE LStrip(_)
LStrip(s) == IF s # <<>> /\ IsSpace(s[1]) THEN LStrip(Tail(s)) ELSE s

RECURSIVE RStrip(_)
RStrip(s) ==
    IF s # <<>> /\ IsSpace(s[Len(s)]) THEN RStrip(Slice(s, 1, Len(s) - 1)) ELSE s

Strip(s) == RStrip(LStrip(s))

\* the decimal digits of a natural number, as f'{n}' and str(n) print it
RECURSIVE NatToStr(_)
NatToStr(n) ==
    IF n < 10 THEN <<Digits[n + 1]>> ELSE NatToStr(n \div 10) \o <<Digits[(n % 10) + 1]>>

IntToStr(n) == IF n < 0 THEN <<"-">> \o NatToStr(0 - n) ELSE NatToStr(n)

\* the concatenation of a sequence of strings
RECURSIVE Concat(_)
Concat(ss) == IF ss = <<>> THEN <<>> ELSE Head(ss) \o Concat(Tail(ss))

\* The bytes a stream carries for a str written to it (UTF-8)
RECURSIVE Encode(_)
Encode(s) ==
    IF s = <<>> THEN <<>>
    ELSE (IF Head(s) = Degree THEN DegreeBytes ELSE <<Head(s)>>) \o Encode(Tail(s))

(***************************************************************************)
(* Python values a handler can return                                      *)
(***************************************************************************)
VStr(s) == [t |-> "str", s |-> s]
VInt(n) == [t |-> "int", n |-> n]
VNone == [t |-> "none"]
VTuple(e) == [t |-> "tuple", e |-> e]

\* repr() of a tuple element (strings here hold no quote and no escape)
Repr(v) ==
    CASE v.t = "str" -> <<"'">> \o v.s \o <<"'">>
      [] v.t = "int" -> IntToStr(v.n)
      [] OTHER -> <<"N", "o", "n", "e">>

RECURSIVE JoinRepr(_)
JoinRepr(e) ==
    IF e = <<>> THEN <<>>
    ELSE IF Len(e) = 1 THEN Repr(e[1])
    ELSE Repr(e[1]) \o <<",", " ">> \o JoinRepr(Tail(e))

\* str(value)
Str(v) ==
    CASE v.t = "str" -> v.s
      [] v.t = "int" -> IntToStr(v.n)
      [] v.t = "none" -> <<"N", "o", "n", "e">>
      [] OTHER -> <<"(">> \o JoinRepr(v.e)
                      \o (IF Len(v.e) = 1 THEN <<",">> ELSE <<>>) \o <<")">>


(***************************************************************************)
(* Response formatter                                                      *)
(***************************************************************************)
HttpVersionPrefix == <<"H", "T", "T", "P", "/", "1", ".", "1", " ">>

StatusCodes == {200, 302, 400, 404, 500}

\* http_status_message of http_status_line
http_status_message(code) ==
    CASE code = 200 -> <<"2", "0", "0", " ", "O", "K">>
      [] code = 302 -> <<"3", "0", "2", " ", "F", "o", "u", "n", "d">>
      [] code = 400 -> <<"4", "0", "0", " ", "B", "a", "d", " ",
                         "R", "e", "q", "u", "e", "s", "t">>
      [] code = 404 -> <<"4", "0", "4", " ", "N", "o", "t", " ", "F", "o", "u", "n", "d">>
      [] OTHER -> <<"5", "0", "0", " ", "I", "n", "t", "e", "r", "n", "a", "l", " ",
                    "S", "e", "r", "v", "e", "r", " ", "E", "r", "r", "o", "r">>

\* http_status_line without the replacement of an unknown code by 500: an
\* unknown code is answered as 200
http_status_line_NoFallback(status_code) ==
    LET code == IF status_code.t = "int" /\ status_code.n \in StatusCodes
                THEN status_code.n
                ELSE 200
    IN  HttpVersionPrefix \o http_status_message(code) \o CRLF

\* http_status_line(status_code): status_code is any Python value
http_status_line(status_code) ==
    LET code == IF status_code.t = "int" /\ status_code.n \in StatusCodes
                THEN status_code.n
                ELSE 500
    IN  HttpVersionPrefix \o http_status_message(code) \o CRLF

server_name == <<"T", "h", "i", "m", "b", "l", "e", " ", "(", "M", "i", "c", "r", "o",
                 "P", "y", "t", "h", "o", "n", ")">>

HdrConnectionClose == <<"C", "o", "n", "n", "e", "c", "t", "i", "o", "n", ":", " ",
                        "c", "l", "o", "s", "e">>
HdrContentEncoding == <<"C", "o", "n", "t", "e", "n", "t", "-", "E", "n", "c", "o", "d",
                        "i", "n", "g", ":", " ">>
HdrContentLength == <<"C", "o", "n", "t", "e", "n", "t", "-", "L", "e", "n", "g", "t",
                      "h", ":", " ">>
HdrContentType == <<"C", "o", "n", "t", "e", "n", "t", "-", "T", "y", "p", "e", ":", " ">>
HdrServer == <<"S", "e", "r", "v", "e", "r", ":", " ">>

\* http_headers with Content-Type written before Content-Length
http_headers_TypeFirst(content_length, content_type, content_encoding) ==
    HdrConnectionClose \o CRLF
      \o (IF content_encoding # <<>>
          THEN HdrContentEncoding \o content_encoding \o CRLF
          ELSE <<>>)
      \o (IF content_type # <<>>
          THEN HdrContentType \o content_type \o CRLF
          ELSE <<>>)
      \o HdrContentLength \o IntToStr(content_length) \o CRLF
      \o HdrServer \o server_name \o CRLF
      \o CRLF

\* http_headers(content_length, content_type, content_encoding)
http_headers(content_length, content_type, content_encoding) ==
    HdrConnectionClose \o CRLF
      \o (IF content_encoding # <<>>
          THEN HdrContentEncoding \o content_encoding \o CRLF
          ELSE <<>>)
      \o HdrContentLength \o IntToStr(content_length) \o CRLF
      \o (IF content_type # <<>>
          THEN HdrContentType \o content_type \o CRLF
          ELSE <<>>)
      \o HdrServer \o server_name \o CRLF
      \o CRLF

TextPlain == <<"t", "e", "x", "t", "/", "p", "l", "a", "i", "n">>

\* self.error_text
error_text(error_number) ==
    CASE error_number = 400 -> <<"4", "0", "0", ":", " ", "B", "a", "d", " ",
                                 "R", "e", "q", "u", "e", "s", "t">>
      [] error_number = 404 -> <<"4", "0", "4", ":", " ", "N", "o", "t", " ",
                                 "F", "o", "u", "n", "d">>
      [] error_number = 500 -> <<"5", "0", "0", ":", " ", "I", "n", "t", "e", "r", "n",
                                 "a", "l", " ", "S", "e", "r", "v", "e", "r", " ",
                                 "E", "r", "r", "o", "r">>

\* The three writer.write calls of send_error, in order
SendErrorWrites(error_number) ==
    LET text == error_text(error_number) \o CRLF
    IN  << http_status_line(VInt(error_number)),
           http_headers(Len(text), TextPlain, <<>>),
           text >>

(***************************************************************************)
(* Wire parser                                                             *)
(***************************************************************************)
\* A Python dict with string keys, as a function on the set of its keys
EmptyDict == [k \in {} |-> <<>>]

DictSet(d, k, v) == [x \in (DOMAIN d) \cup {k} |-> IF x = k THEN v ELSE d[x]]

\* parse_query_string: the loop over query_params. A segment with more than
\* one '=' makes "key, value = param.split('=')" raise ValueError.
RECURSIVE QueryLoop(_, _)
QueryLoop(params, query) ==
    IF params = <<>> THEN [ok |-> TRUE, query |-> query]
    ELSE LET param == Head(params)
             kv == Split(param, <<"=">>)
         IN  IF ~Contains(param, <<"=">>)
             THEN QueryLoop(Tail(params), DictSet(query, param, <<>>))
             ELSE IF Len(kv) # 2
             THEN [ok |-> FALSE, query |-> query]
             ELSE QueryLoop(Tail(params), DictSet(query, kv[1], kv[2]))

parse_query_string(query_string) == QueryLoop(Split(query_string, <<"&">>), EmptyDict)

\* The header loop of parse_http_request over lines[i], i = from .. Len(lines) - 1:
\* stops at the first blank line; a line without ':' raises ValueError.
RECURSIVE HeaderLoop(_, _, _)
HeaderLoop(lines, i, headers) ==
    IF i > Len(lines) - 1 \/ lines[i] = <<>>
    THEN [ok |-> TRUE, headers |-> headers]
    ELSE LET nv == SplitMax(lines[i], <<":">>, 1)
         IN  IF Len(nv) # 2
             THEN [ok |-> FALSE, headers |-> headers]
             ELSE HeaderLoop(lines, i + 1,
                             DictSet(headers, Lower(Strip(nv[1])), Strip(nv[2])))

ParseFailure == [ok |-> FALSE]

\* parse_http_request(req_buffer): [ok |-> FALSE] when it raises, else the req dict
parse_http_request(req_buffer) ==
    IF req_buffer = <<>> THEN ParseFailure                      \* the assert
    ELSE IF \E i \in 1..Len(req_buffer) : req_buffer[i] = BadByte
    THEN ParseFailure                                           \* decode('utf8')
    ELSE
    LET lines == Split(req_buffer, CRLF)
        first == SplitMax(lines[1], <<" ">>, 2)
    IN  IF Len(first) # 3 THEN ParseFailure                     \* unpacking
        ELSE
        LET target == first[2]
            hasq == Contains(target, <<"?">>)
            pq == SplitMax(target, <<"?">>, 1)
            q == IF hasq THEN parse_query_string(pq[2])
                 ELSE [ok |-> TRUE, query |-> EmptyDict]
            h == HeaderLoop(lines, 2, EmptyDict)
        IN  IF ~q.ok \/ ~h.ok THEN ParseFailure
            ELSE [ ok |-> TRUE,
                   method |-> first[1],
                   http_version |-> first[3],
                   path |-> pq[1],
                   has_query |-> hasq,
                   query |-> q.query,
                   headers |-> h.headers,
                   body |-> lines[Len(lines)] ]


(***************************************************************************)
(* Route table: route() and resolve_route()                                *)
(***************************************************************************)
\* regex_macros of route(): the macro tokens and the sub-pattern each becomes
MacroDigit == <<"<", "d", "i", "g", "i", "t", ">">>
MacroFloat == <<"<", "f", "l", "o", "a", "t", ">">>
MacroInt == <<"<", "i", "n", "t", ">">>
MacroString == <<"<", "s", "t", "r", "i", "n", "g", ">">>

RegexDigit == <<"(", "[", "0", "-", "9", "]", ")">>
RegexFloat == <<"(", "[", "-", "+", "]", "?", "[", "0", "-", "9", "]", "*", "\\", ".", "?", "[", "0", "-", "9", "]", "+", ")">>
RegexInt == <<"(", "[", "0", "-", "9", "]", "+", ")">>
RegexString == <<"(", ".", "*", ")">>

MacroTokens == {MacroDigit, MacroFloat, MacroInt, MacroString}

regex_macros(token) ==
    CASE token = MacroDigit -> RegexDigit
      [] token = MacroFloat -> RegexFloat
      [] token = MacroInt -> RegexInt
      [] token = MacroString -> RegexString

\* search('(<.*>)', url_path).group(1): from the first '<' that has a '>' after it
\* to the last '>' of the string ('.*' is greedy); <<>> when there is no match.
MacroSearch(url_path) ==
    LET opens == {i \in 1..Len(url_path) :
                     /\ url_path[i] = "<"
                     /\ \E j \in (i + 1)..Len(url_path) : url_path[j] = ">"}
    IN  IF opens = {} THEN <<>>
        ELSE LET i == CHOOSE a \in opens : \A b \in opens : a <= b
                 j == CHOOSE a \in (i + 1)..Len(url_path) :
                          /\ url_path[a] = ">"
                          /\ \A b \in (a + 1)..Len(url_path) : url_path[b] # ">"
             IN  Slice(url_path, i, j)

\* s.replace(old, new) for an old that occurs exactly once in s
ReplaceOnce(s, old, new) ==
    LET i == Find(s, old)
    IN  Slice(s, 1, i - 1) \o new \o Slice(s, i + Len(old), Len(s))

\* RoutePath that stores a path as it is when its token is no known macro
RoutePath_KeepsUnknown(url_path) ==
    LET token == MacroSearch(url_path)
    IN  IF token = <<>> \/ token \notin MacroTokens
        THEN [ok |-> TRUE, url_path |-> url_path]
        ELSE [ok |-> TRUE, url_path |-> ReplaceOnce(url_path, token, regex_macros(token))]

\* The body of route() before add_route: [ok |-> FALSE] when the lookup
\* regex_macros[...] raises KeyError, else the url_path that will be stored.
RoutePath(url_path) ==
    LET token == MacroSearch(url_path)
    IN  IF token = <<>> THEN [ok |-> TRUE, url_path |-> url_path]
        ELSE IF token \notin MacroTokens THEN [ok |-> FALSE, url_path |-> url_path]
        ELSE [ok |-> TRUE, url_path |-> ReplaceOnce(url_path, token, regex_macros(token))]

\* RoutesSet that leaves an existing key with the handler it has
RoutesSet_KeepFirst(rs, key, func) ==
    IF \E i \in 1..Len(rs) : rs[i].key = key
    THEN rs
    ELSE Append(rs, [key |-> key, func |-> func])

\* self.routes[key] = func on a dict that keeps insertion order: an existing key
\* keeps its place and takes the new value, a new key goes last.
RoutesSet(rs, key, func) ==
    IF \E i \in 1..Len(rs) : rs[i].key = key
    THEN [i \in 1..Len(rs) |-> IF rs[i].key = key THEN [key |-> key, func |-> func]
                                                  ELSE rs[i]]
    ELSE Append(rs, [key |-> key, func |-> func])

\* add_route(func): one entry per method, in the order of the methods list
RECURSIVE add_route(_, _, _, _)
add_route(rs, url_path, methods, func) ==
    IF methods = <<>> THEN rs
    ELSE add_route(RoutesSet(rs, Upper(Head(methods)) \o url_path, func),
                   url_path, Tail(methods), func)

\* route(url_path, methods)(func): the table after the decorator has run
\* (unchanged when route() raises)
route(rs, url_path, methods, func) ==
    LET p == RoutePath(url_path)
    IN  IF p.ok THEN add_route(rs, p.url_path, methods, func) ELSE rs

RoutesHas(rs, key) == \E i \in 1..Len(rs) : rs[i].key = key

RoutesGet(rs, key) == rs[CHOOSE i \in 1..Len(rs) : rs[i].key = key].func

\* One pattern character against one subject character, for the pattern
\* characters that occur outside a macro's sub-pattern: '.' matches any
\* character but a newline, every other one (a letter, a digit, '/', '<',
\* '>', '-', '_') matches itself.
PatCharMatches(p, c) == IF p = "." THEN c # LF ELSE p = c

PatMatches(pat, s) ==
    /\ Len(pat) = Len(s)
    /\ \A i \in 1..Len(pat) : PatCharMatches(pat[i], s[i])

AllDigits(s) == \A i \in 1..Len(s) : IsDigit(s[i])

\* the languages of the four sub-patterns
InRegexDigit(s) == Len(s) = 1 /\ IsDigit(s[1])
InRegexInt(s) == Len(s) >= 1 /\ AllDigits(s)
InRegexString(s) == \A i \in 1..Len(s) : s[i] # LF
InRegexFloat(s) ==
    LET b == IF s # <<>> /\ s[1] \in {"-", "+"} THEN Tail(s) ELSE s
    IN  /\ b # <<>>
        /\ IsDigit(b[Len(b)])
        /\ \A i \in 1..Len(b) : IsDigit(b[i]) \/ b[i] = "."
        /\ Cardinality({i \in 1..Len(b) : b[i] = "."}) <= 1

InRegex(sub, s) ==
    CASE sub = RegexDigit -> InRegexDigit(s)
      [] sub = RegexFloat -> InRegexFloat(s)
      [] sub = RegexInt -> InRegexInt(s)
      [] sub = RegexString -> InRegexString(s)

\* The sub-pattern a stored key holds (<<>> if none). Registered paths hold no
\* parenthesis of their own, so a '(' in a key starts a substituted macro.
SubPatternOf(stored_route) ==
    LET i == Find(stored_route, <<"(">>)
        here == {r \in {RegexDigit, RegexFloat, RegexInt, RegexString} :
                    OccursAt(stored_route, r, i)}
    IN  IF i = 0 \/ here = {} THEN <<>>
        ELSE CHOOSE r \in here : \A q \in here : Len(q) <= Len(r)

NoMatch == [matched |-> FALSE, groups |-> 0, group1 |-> <<>>]

\* search("^" + stored_route + "$", route_candidate): whether it matches, how
\* many groups the pattern has, and what group 1 holds
RegexSearch(stored_route, route_candidate) ==
    LET sub == SubPatternOf(stored_route)
    IN  IF sub = <<>>
        THEN IF PatMatches(stored_route, route_candidate)
             THEN [matched |-> TRUE, groups |-> 0, group1 |-> <<>>]
             ELSE NoMatch
        ELSE
        LET i == Find(stored_route, sub)
            pre == Slice(stored_route, 1, i - 1)
            suf == Slice(stored_route, i + Len(sub), Len(stored_route))
            n == Len(route_candidate)
            mid == Slice(route_candidate, Len(pre) + 1, n - Len(suf))
        IN  IF /\ n >= Len(pre) + Len(suf)
               /\ PatMatches(pre, Slice(route_candidate, 1, Len(pre)))
               /\ PatMatches(suf, Slice(route_candidate, n - Len(suf) + 1, n))
               /\ InRegex(sub, mid)
            THEN [matched |-> TRUE, groups |-> 1, group1 |-> mid]
            ELSE NoMatch

\* What resolve_route returns: None, a function, a (function, wildcard) tuple;
\* or it raises (regex_match.group(1) on a pattern without a group: IndexError).
NoRoute == [kind |-> "none", func |-> "", wildcard |-> <<>>]
RouteFunc(f) == [kind |-> "func", func |-> f, wildcard |-> <<>>]
RouteTuple(f, w) == [kind |-> "tuple", func |-> f, wildcard |-> w]
RouteRaise == [kind |-> "raise", func |-> "", wildcard |-> <<>>]

\* for stored_route in self.routes.keys(): the loop has no break, so a later
\* match replaces an earlier result
RECURSIVE ResolveLoop(_, _, _, _)
ResolveLoop(rs, i, route_candidate, result) ==
    IF i > Len(rs) THEN result
    ELSE LET m == RegexSearch(rs[i].key, route_candidate)
         IN  IF ~m.matched THEN ResolveLoop(rs, i + 1, route_candidate, result)
             ELSE IF m.groups = 0 THEN RouteRaise
             ELSE ResolveLoop(rs, i + 1, route_candidate,
                              RouteTuple(rs[i].func, m.group1))

\* resolve_route with the pattern loop tried before the exact match
resolve_route_PatternsFirst(rs, route_candidate) ==
    LET looped == ResolveLoop(rs, 1, route_candidate, NoRoute)
    IN  IF looped.kind = "none" /\ RoutesHas(rs, route_candidate)
        THEN RouteFunc(RoutesGet(rs, route_candidate))
        ELSE looped

resolve_route(rs, route_candidate) ==
    IF RoutesHas(rs, route_candidate)
    THEN RouteFunc(RoutesGet(rs, route_candidate))
    ELSE ResolveLoop(rs, 1, route_candidate, NoRoute)

(***************************************************************************)
(* Static files                                                            *)
(***************************************************************************)
static_folder == <<"/", "s", "t", "a", "t", "i", "c">>
directory_index == <<"i", "n", "d", "e", "x", ".", "h", "t", "m", "l">>
default_content_type == <<"a", "p", "p", "l", "i", "c", "a", "t", "i", "o", "n", "/", "o", "c", "t", "e", "t", "-", "s", "t", "r", "e", "a", "m">>
GzipSuffix == <<".", "g", "z", "i", "p">>
Gzip == <<"g", "z", "i", "p">>
AcceptEncoding == <<"a", "c", "c", "e", "p", "t", "-", "e", "n", "c", "o", "d", "i", "n", "g">>

MediaExts ==
    { <<"c", "s", "s">>,
      <<"h", "t", "m", "l">>,
      <<"i", "c", "o">>,
      <<"j", "p", "g">>,
      <<"j", "s">>,
      <<"j", "s", "o", "n">>,
      <<"o", "t", "f">>,
      <<"p", "n", "g">>,
      <<"s", "v", "g">>,
      <<"t", "t", "f">>,
      <<"t", "x", "t">>,
      <<"w", "o", "f", "f">>,
      <<"w", "o", "f", "f", "2">> }

\* self.media_types
media_types(file_ext) ==
    CASE file_ext = <<"c", "s", "s">> ->
             <<"t", "e", "x", "t", "/", "c", "s", "s">>
      [] file_ext = <<"h", "t", "m", "l">> ->
             <<"t", "e", "x", "t", "/", "h", "t", "m", "l">>
      [] file_ext = <<"i", "c", "o">> ->
             <<"i", "m", "a", "g", "e", "/", "v", "n", "d", ".", "m", "i", "c", "r", "o", "s", "o", "f", "t", ".", "i", "c", "o", "n">>
      [] file_ext = <<"j", "p", "g">> ->
             <<"i", "m", "a", "g", "e", "/", "j", "p", "e", "g">>
      [] file_ext = <<"j", "s">> ->
             <<"t", "e", "x", "t", "/", "j", "a", "v", "a", "s", "c", "r", "i", "p", "t">>
      [] file_ext = <<"j", "s", "o", "n">> ->
             <<"a", "p", "p", "l", "i", "c", "a", "t", "i", "o", "n", "/", "j", "s", "o", "n">>
      [] file_ext = <<"o", "t", "f">> ->
             <<"f", "o", "n", "t", "/", "o", "t", "f">>
      [] file_ext = <<"p", "n", "g">> ->
             <<"i", "m", "a", "g", "e", "/", "p", "n", "g">>
      [] file_ext = <<"s", "v", "g">> ->
             <<"i", "m", "a", "g", "e", "/", "s", "v", "g", "+", "x", "m", "l">>
      [] file_ext = <<"t", "t", "f">> ->
             <<"f", "o", "n", "t", "/", "t", "t", "f">>
      [] file_ext = <<"t", "x", "t">> ->
             <<"t", "e", "x", "t", "/", "p", "l", "a", "i", "n">>
      [] file_ext = <<"w", "o", "f", "f">> ->
             <<"f", "o", "n", "t", "/", "w", "o", "f", "f">>
      [] file_ext = <<"w", "o", "f", "f", "2">> ->
             <<"f", "o", "n", "t", "/", "w", "o", "f", "f", "2">>

\* file_type(file_path)
file_type(file_path) ==
    LET parts == Split(file_path, <<".">>)
        file_ext == parts[Len(parts)]
    IN  IF file_ext \notin MediaExts THEN default_content_type ELSE media_types(file_ext)

\* read_file_chunk reads file.read(512) at a time
ChunkSize == 512


\* The filesystem under the static folder: path |-> bytes (regular files only)
FsIndexHtml == <<"/", "s", "t", "a", "t", "i", "c", "/", "i", "n", "d", "e", "x", ".", "h", "t", "m", "l">>
FsIndexHtmlGzip == <<"/", "s", "t", "a", "t", "i", "c", "/", "i", "n", "d", "e", "x", ".", "h", "t", "m", "l", ".", "g", "z", "i", "p">>
FsTestingTxt == <<"/", "s", "t", "a", "t", "i", "c", "/", "t", "e", "s", "t", "i", "n", "g", ".", "t", "x", "t">>
FsAppJsGzip == <<"/", "s", "t", "a", "t", "i", "c", "/", "a", "p", "p", ".", "j", "s", ".", "g", "z", "i", "p">>
FsBigTxt == <<"/", "s", "t", "a", "t", "i", "c", "/", "b", "i", "g", ".", "t", "x", "t">>

FsPaths == {FsIndexHtml, FsIndexHtmlGzip, FsTestingTxt, FsAppJsGzip, FsBigTxt}

\* A file that takes three reads: two full chunks and a rest of six bytes,
\* every byte the last decimal digit of its offset
BigFile == [i \in 1..(2 * ChunkSize + 6) |-> Digits[((i - 1) % 10) + 1]]

FsContents(path) ==
    CASE path = FsIndexHtml -> <<"<", "t", "i", "t", "l", "e", ">", "T", "e", "s", "t", "i", "n", "g", "<", "/", "t", "i", "t", "l", "e", ">">>
      [] path = FsIndexHtmlGzip -> <<"x1F", "x8B", "x08", "z", "1">>
      [] path = FsTestingTxt -> <<"T", "e", "s", "t", "i", "n", "g", " ", "1", " ", "2", " ", "3">>
      [] path = FsAppJsGzip -> <<"x1F", "x8B", "x08", "z", "2", "z", "3">>
      [] path = FsBigTxt -> BigFile

\* file_size(file_path): stat(file_path)[6], or None on OSError
file_size(file_path) ==
    IF file_path \in FsPaths THEN VInt(Len(FsContents(file_path))) ELSE VNone

\* read_file_chunk with file.read() in place of file.read(512)
read_file_chunk_Unbounded(file_path, pos) ==
    LET data == FsContents(file_path)
    IN  Slice(data, pos + 1, Len(data))

\* One step of "for chunk in read_file_chunk(file)": the bytes file.read(512) returns at pos
read_file_chunk(file_path, pos) ==
    LET data == FsContents(file_path)
        last == IF pos + ChunkSize < Len(data) THEN pos + ChunkSize ELSE Len(data)
    IN  Slice(data, pos + 1, last)

(***************************************************************************)
(* Handlers: the functions the application registers                       *)
(***************************************************************************)
Returned(v) == [raised |-> FALSE, value |-> v]
Raised == [raised |-> TRUE, value |-> VNone]
\* the call neither returns nor raises nor awaits
NeverReturns == [raised |-> FALSE, value |-> VNone, returns |-> FALSE]

Handlers == {"hello", "hello_noarg", "get_temp_c", "set_gpio_2", "test_get_json",
             "set_nightlight", "get_gpio", "get_any", "get_slow", "get_degrees", "spin",
             "hello_async"}

\* number of positional parameters of each handler
HandlerArity(func) ==
    CASE func = "hello_noarg" -> 0
      [] func \in {"get_gpio", "get_any"} -> 2
      [] OTHER -> 1

AsyncHandlers == {"get_slow", "hello_async"}

\* def hello(req): return 'Hello!'
hello(req) == Returned(VStr(<<"H", "e", "l", "l", "o", "!">>))

\* def get_temp_c(req): return round(temp_c), with temp_c = 0 before the first reading
get_temp_c(req) == Returned(VInt(0))

\* def set_gpio_2(req): the pin is set and read back when the body is '1'; any
\* other body reaches the misspelt name erq and raises NameError
set_gpio_2(req) == IF req.body = <<"1">> THEN Returned(VInt(1)) ELSE Raised

\* def test_get(req): return stringify({ "msg": "Testing 1 2 3" }), 200, 'application/json'
test_get_json(req) ==
    Returned(VTuple(<< VStr(<<"{", "\"", "m", "s", "g", "\"", ":", " ", "\"", "T", "e", "s", "t", "i", "n", "g", " ", "1", " ", "2", " ", "3", "\"", "}">>),
                       VInt(200),
                       VStr(<<"a", "p", "p", "l", "i", "c", "a", "t", "i", "o", "n", "/", "j", "s", "o", "n">>) >>))

\* PUT /nightlight: ("on", 200) when the body is "on", else ("Value out of range", 400)
set_nightlight(req) ==
    IF req.body = <<"o", "n">>
    THEN Returned(VTuple(<<VStr(<<"o", "n">>), VInt(200)>>))
    ELSE Returned(VTuple(<<VStr(<<"V", "a", "l", "u", "e", " ", "o", "u", "t", " ", "o", "f", " ", "r", "a", "n", "g", "e">>), VInt(400)>>))

\* GET /gpio/<int>: the handler of a wildcard route returns what it captured
get_gpio(req, url_wildcard) == Returned(VStr(url_wildcard))

\* a second wildcard handler: (captured, 404, 'text/html')
get_any(req, url_wildcard) ==
    Returned(VTuple(<<VStr(url_wildcard), VInt(404), VStr(<<"t", "e", "x", "t", "/", "h", "t", "m", "l">>)>>))

\* async def get_slow(req): awaits a sleep, then returns a 4-element tuple
get_slow(req) == Returned(VTuple(<<VStr(<<"a">>), VInt(200), VNone, VInt(7)>>))

\* def get_degrees(req): return the one-character string of the degree sign
get_degrees(req) == Returned(VStr(<<Degree>>))

\* async def hello_async(req): awaits a sleep, then returns 'Hello!'
hello_async(req) == Returned(VStr(<<"H", "e", "l", "l", "o", "!">>))

\* def spin(req): while True: pass
spin(req) == NeverReturns

\* func(req) or func(req, url_wildcard): TypeError when the number of arguments
\* is not the number of parameters, else what the body returns or raises
Invoke(func, req, url_wildcard) ==
    LET nargs == IF url_wildcard.t # "none" THEN 2 ELSE 1
    IN  IF nargs # HandlerArity(func) THEN Raised
        ELSE CASE func = "hello" -> hello(req)
               [] func = "get_temp_c" -> get_temp_c(req)
               [] func = "set_gpio_2" -> set_gpio_2(req)
               [] func = "test_get_json" -> test_get_json(req)
               [] func = "set_nightlight" -> set_nightlight(req)
               [] func = "get_gpio" -> get_gpio(req, url_wildcard.s)
               [] func = "get_any" -> get_any(req, url_wildcard.s)
               [] func = "get_slow" -> get_slow(req)
               [] func = "get_degrees" -> get_degrees(req)
               [] func = "spin" -> spin(req)
               [] func = "hello_async" -> hello_async(req)

\* is_async(func) is True
is_async(func) == func \in AsyncHandlers


(***************************************************************************)
(* The connection task: on_connect and what it calls                       *)
(***************************************************************************)
Conns == {"c1"}

\* The connection tasks that can be in flight at once when clients overlap
Tasks == {"c1", "c2"}

\* No helper is being called on its own
NoCall == [fn |-> "none"]
NoResult == [set |-> FALSE]

\* A slot with no connection. out is the sequence of writer.write arguments
\* as the bytes that reach the stream,
\* drained how many of them the last completed drain() has flushed; calls and
\* stats record the handler calls and the stat() lookups the task has made.
IdleConn ==
    [ pc |-> "idle",
      got_buffer |-> FALSE, req_buffer |-> <<>>,
      req |-> ParseFailure,
      resolved |-> FALSE, route_value |-> NoRoute,
      calls |-> <<>>, stats |-> <<>>,
      out |-> <<>>, drained |-> 0,
      body |-> <<>>, file_path |-> <<>>, file_pos |-> 0,
      w_closed |-> FALSE, r_closed |-> FALSE ]

\* send_error(error_number, writer), up to its "await writer.drain()"
send_error(k, error_number) ==
    [k EXCEPT !.out = @ \o SendErrorWrites(error_number), !.pc = "drain_err"]

\* NormalizeResult without the two-element branch
NormalizeResult_NoPair(func_result) ==
    IF func_result.t = "tuple" /\ Len(func_result.e) = 3
    THEN [body |-> func_result.e[1], status_code |-> func_result.e[2],
          content_type |-> func_result.e[3]]
    ELSE [body |-> func_result, status_code |-> VInt(200),
          content_type |-> VStr(TextPlain)]

\* send_function_results, lines 221-229: (body, status_code, content_type)
NormalizeResult(func_result) ==
    IF func_result.t = "tuple" /\ Len(func_result.e) = 3
    THEN [body |-> func_result.e[1], status_code |-> func_result.e[2],
          content_type |-> func_result.e[3]]
    ELSE IF func_result.t = "tuple" /\ Len(func_result.e) = 2
    THEN [body |-> func_result.e[1], status_code |-> func_result.e[2],
          content_type |-> VStr(TextPlain)]
    ELSE [body |-> func_result, status_code |-> VInt(200),
          content_type |-> VStr(TextPlain)]

\* send_function_results, lines 221-235: the else branch of the try
SendSuccess(k, func_result) ==
    LET r == NormalizeResult(func_result)
        body == IF r.body.t # "str" THEN Str(r.body) ELSE r.body.s
    IN  [k EXCEPT !.out = @ \o << http_status_line(r.status_code),
                                  http_headers(Len(body), Str(r.content_type), <<>>) >>,
                  !.body = body,
                  !.pc = "drain_hdr"]

\* SendResult without the except branch: the handler's error leaves the task
SendResult_NoCatch(k, outcome) ==
    IF outcome.raised THEN [k EXCEPT !.pc = "crashed"] ELSE SendSuccess(k, outcome.value)

\* send_function_results from the end of the call to the first drain():
\* the except branch, or the else branch down to line 235
SendResult(k, outcome) ==
    IF outcome.raised THEN send_error(k, 500) ELSE SendSuccess(k, outcome.value)

\* send_function_results writing the status line of a success before it
\* calls the handler
send_function_results_StatusFirst(k, func, req, url_wildcard) ==
    LET outcome == Invoke(func, req, url_wildcard)
        called == [k EXCEPT !.calls = Append(@, [func |-> func, url_wildcard |-> url_wildcard]),
                            !.out = Append(@, http_status_line(VInt(200)))]
    IN  IF is_async(func) /\ ~outcome.raised
        THEN [called EXCEPT !.pc = "h_await"]
        ELSE SendResult(called, outcome)

\* send_function_results(func, req, url_wildcard, writer) up to its first
\* suspension: the call of the handler, awaited when is_async(func) is True.
\* A handler that never returns and never awaits leaves the task running.
send_function_results(k, func, req, url_wildcard) ==
    LET outcome == Invoke(func, req, url_wildcard)
        called == [k EXCEPT !.calls = Append(@, [func |-> func, url_wildcard |-> url_wildcard])]
    IN  IF outcome = NeverReturns
        THEN [called EXCEPT !.pc = "h_running"]
        ELSE IF is_async(func) /\ ~outcome.raised
        THEN [called EXCEPT !.pc = "h_await"]
        ELSE SendResult(called, outcome)

\* The loop "for chunk in read_file_chunk(file)" up to its next drain(), or to
\* the drain() of on_connect when the file is exhausted
StreamNext(k) ==
    LET chunk == read_file_chunk(k.file_path, k.file_pos)
    IN  IF chunk = <<>>
        THEN [k EXCEPT !.pc = "final_drain"]
        ELSE [k EXCEPT !.out = Append(@, chunk),
                       !.file_pos = @ + Len(chunk),
                       !.pc = "drain_chunk"]

\* AcceptsGzip without the lower()
AcceptsGzip_CaseSensitive(req) ==
    /\ AcceptEncoding \in DOMAIN req.headers
    /\ Contains(req.headers[AcceptEncoding], Gzip)

\* 'accept-encoding' in req['headers'] and 'gzip' in req['headers']['accept-encoding'].lower()
AcceptsGzip(req) ==
    /\ AcceptEncoding \in DOMAIN req.headers
    /\ Contains(Lower(req.headers[AcceptEncoding]), Gzip)

\* send_file_contents(file_path, req, writer) up to its first drain()
send_file_contents(k, file_path, req) ==
    LET file_gzip_size == file_size(file_path \o GzipSuffix)
        fsize == file_size(file_path)
        ftype == file_type(file_path)
        looked == [k EXCEPT !.stats = @ \o <<file_path \o GzipSuffix, file_path>>]
    IN  IF file_gzip_size.t # "none" /\ AcceptsGzip(req)
        THEN StreamNext([looked EXCEPT
                 !.out = @ \o << http_status_line(VInt(200)),
                                 http_headers(file_gzip_size.n, ftype, Gzip) >>,
                 !.file_path = file_path \o GzipSuffix,
                 !.file_pos = 0])
        ELSE IF fsize.t # "none"
        THEN StreamNext([looked EXCEPT
                 !.out = @ \o << http_status_line(VInt(200)),
                                 http_headers(fsize.n, ftype, <<>>) >>,
                 !.file_path = file_path,
                 !.file_pos = 0])
        ELSE send_error(looked, 404)

\* The static-file branch of on_connect (lines 428-431)
ServeStatic(k, req) ==
    LET file_path == static_folder \o req.path
    IN  send_file_contents(k,
            IF EndsWith(file_path, <<"/">>) THEN file_path \o directory_index
                                            ELSE file_path,
            req)

\* Dispatch passing None where the resolver returned a wildcard
Dispatch_DropsCapture(k, rs, req) ==
    LET route_value == resolve_route(rs, req.method \o req.path)
        k1 == [k EXCEPT !.req = req, !.resolved = TRUE, !.route_value = route_value]
    IN  CASE route_value.kind = "raise" -> [k1 EXCEPT !.pc = "crashed"]
          [] route_value.kind \in {"tuple", "func"} ->
                send_function_results(k1, route_value.func, req, VNone)
          [] OTHER -> ServeStatic(k1, req)

\* Dispatch that hands control to the event loop between resolve_route and
\* the call of the handler
Dispatch_YieldsAfterResolve(k, rs, req) ==
    LET route_value == resolve_route(rs, req.method \o req.path)
        k1 == [k EXCEPT !.req = req, !.resolved = TRUE, !.route_value = route_value]
    IN  CASE route_value.kind = "raise" -> [k1 EXCEPT !.pc = "crashed"]
          [] route_value.kind \in {"tuple", "func"} -> [k1 EXCEPT !.pc = "resolved"]
          [] OTHER -> ServeStatic(k1, req)

\* on_connect, the else branch of the try (lines 419-431), up to the first suspension
Dispatch(k, rs, req) ==
    LET route_value == resolve_route(rs, req.method \o req.path)
        k1 == [k EXCEPT !.req = req, !.resolved = TRUE, !.route_value = route_value]
    IN  CASE route_value.kind = "raise" -> [k1 EXCEPT !.pc = "crashed"]
          [] route_value.kind = "tuple" ->
                send_function_results(k1, route_value.func, req, VStr(route_value.wildcard))
          [] route_value.kind = "func" ->
                send_function_results(k1, route_value.func, req, VNone)
          [] OTHER -> ServeStatic(k1, req)

\* OnRead with reader.read outside the try: its error leaves the task
OnRead_ReadUncaught(k, rs, remote_addr, input) ==
    IF input.error THEN [k EXCEPT !.pc = "crashed"]
    ELSE LET k1 == [k EXCEPT !.got_buffer = TRUE, !.req_buffer = input.data]
             req == parse_http_request(input.data)
         IN  IF ~req.ok THEN send_error(k1, 400)
             ELSE Dispatch(k1, rs, [remote_addr |-> remote_addr] @@ req)

\* on_connect from the return of reader.read to the first suspension after it
\* (lines 412-431). input.error: reader.read raised.
OnRead(k, rs, remote_addr, input) ==
    IF input.error THEN send_error(k, 400)
    ELSE LET k1 == [k EXCEPT !.got_buffer = TRUE, !.req_buffer = input.data]
             req == parse_http_request(input.data)
         IN  IF ~req.ok THEN send_error(k1, 400)
             ELSE Dispatch(k1, rs, [remote_addr |-> remote_addr] @@ req)


(***************************************************************************)
(* Inputs: the registrations an application makes, the requests clients send*)
(***************************************************************************)
MaxRoutes == 2

GET == <<"G", "E", "T">>
PUT == <<"P", "U", "T">>
GetLower == <<"g", "e", "t">>

PathHello == <<"/", "h", "e", "l", "l", "o">>
PathNightlight == <<"/", "n", "i", "g", "h", "t", "l", "i", "g", "h", "t">>
PathGpioInt == <<"/", "g", "p", "i", "o", "/", "<", "i", "n", "t", ">">>
PathGpio2 == <<"/", "g", "p", "i", "o", "/", "2">>
PathAnyString == <<"/", "<", "s", "t", "r", "i", "n", "g", ">">>
PathADotB == <<"/", "a", ".", "b">>
PathAXB == <<"/", "a", "X", "b">>
PathRoot == <<"/">>
PathJson == <<"/", "j", "s", "o", "n">>
PathSlow == <<"/", "s", "l", "o", "w">>
PathTemp == <<"/", "t", "e", "m", "p">>
PathUnknownMacro == <<"/", "x", "/", "<", "f", "o", "o", ">">>
PathTwoMacros == <<"/", "<", "i", "n", "t", ">", "/", "<", "i", "n", "t", ">">>
PathIndexHtml == <<"/", "i", "n", "d", "e", "x", ".", "h", "t", "m", "l">>
PathTestingTxt == <<"/", "t", "e", "s", "t", "i", "n", "g", ".", "t", "x", "t">>
PathMissingTxt == <<"/", "m", "i", "s", "s", "i", "n", "g", ".", "t", "x", "t">>
PathAppJs == <<"/", "a", "p", "p", ".", "j", "s">>
PathBigTxt == <<"/", "b", "i", "g", ".", "t", "x", "t">>
PathSpin == <<"/", "s", "p", "i", "n">>

RouteCall(url_path, methods, func) ==
    [url_path |-> url_path, methods |-> methods, func |-> func]

\* def route(self, url_path, methods=['GET'])
DefaultMethods == <<GET>>

RouteCalls ==
    { RouteCall(PathHello, DefaultMethods, "hello"),
      RouteCall(PathNightlight, <<PUT>>, "set_nightlight"),
      RouteCall(PathGpioInt, <<GET>>, "get_gpio"),
      RouteCall(PathAnyString, <<GetLower>>, "get_any"),
      RouteCall(PathGpio2, <<GET, PUT>>, "set_gpio_2"),
      RouteCall(PathADotB, <<GET>>, "hello"),
      RouteCall(PathAXB, <<PUT>>, "get_temp_c"),
      RouteCall(PathRoot, <<GET>>, "hello_noarg"),
      RouteCall(PathJson, <<GET>>, "test_get_json"),
      RouteCall(PathSlow, <<GET>>, "get_slow"),
      RouteCall(PathTemp, <<GET>>, "get_temp_c"),
      RouteCall(PathUnknownMacro, <<GET>>, "get_gpio"),
      RouteCall(PathTwoMacros, <<GET>>, "get_gpio"),
      RouteCall(PathHello, <<GET>>, "get_degrees"),
      RouteCall(PathHello, <<GET>>, "hello_async") }

Http11 == <<"H", "T", "T", "P", "/", "1", ".", "1">>
HostX == <<"H", "o", "s", "t", ":", " ", "x">>
AcceptGzip == <<"A", "c", "c", "e", "p", "t", "-", "E", "n", "c", "o", "d", "i", "n", "g", ":", " ", "G", "Z", "I", "P", ",", " ", "d", "e", "f", "l", "a", "t", "e">>
AcceptDeflate == <<"a", "c", "c", "e", "p", "t", "-", "e", "n", "c", "o", "d", "i", "n", "g", ":", " ", "d", "e", "f", "l", "a", "t", "e">>
BodyOn == <<"o", "n">>

\* method SP target SP HTTP/1.1 CRLF (header CRLF)* CRLF body
RECURSIVE HeaderLines(_)
HeaderLines(hs) == IF hs = <<>> THEN <<>> ELSE Head(hs) \o CRLF \o HeaderLines(Tail(hs))

Request(method, target, hs, body) ==
    method \o <<" ">> \o target \o <<" ">> \o Http11 \o CRLF \o HeaderLines(hs) \o CRLF \o body

WellFormedBuffers ==
    { Request(GET, PathHello, <<HostX>>, <<>>),
      Request(GetLower, PathHello, <<>>, <<>>),
      Request(GET, PathHello \o <<"?", "a", "=", "1", "&", "b">>, <<>>, <<>>),
      Request(PUT, PathNightlight, <<HostX>>, BodyOn),
      Request(PUT, PathNightlight, <<>>, <<"7">>),
      Request(GET, PathNightlight, <<>>, <<>>),
      Request(GET, PathGpio2, <<>>, <<>>),
      Request(PUT, PathGpio2, <<>>, <<"1">>),
      Request(PUT, PathGpio2, <<>>, <<"0">>),
      Request(GET, <<"/", "g", "p", "i", "o", "/", "x">>, <<>>, <<>>),
      Request(GET, PathAXB, <<>>, <<>>),
      Request(GET, PathADotB, <<>>, <<>>),
      Request(GET, PathRoot, <<>>, <<>>),
      Request(GET, PathRoot, <<HostX, AcceptGzip>>, <<>>),
      Request(GET, PathIndexHtml, <<AcceptDeflate>>, <<>>),
      Request(GET, PathTestingTxt, <<AcceptGzip>>, <<>>),
      Request(GET, PathMissingTxt, <<>>, <<>>),
      Request(GET, PathAppJs, <<AcceptGzip>>, <<>>),
      Request(GET, PathAppJs, <<>>, <<>>),
      Request(GET, PathBigTxt, <<>>, <<>>),
      Request(GET, PathJson, <<>>, <<>>),
      Request(GET, PathSlow, <<>>, <<>>),
      Request(GET, PathTemp, <<>>, <<>>) }

\* an empty read, a byte that is no UTF-8, a request line of two tokens, a
\* header line without a colon, a query segment with two '='
EmptyBuffer == <<>>
UndecodableBuffer == GET \o <<" ", "/", BadByte, " ">> \o Http11 \o CRLF \o CRLF
TwoTokenBuffer == GET \o <<" ">> \o PathHello \o CRLF \o CRLF
NoColonBuffer == GET \o <<" ">> \o PathHello \o <<" ">> \o Http11 \o CRLF
                     \o <<"H", "o", "s", "t">> \o CRLF \o CRLF
TwoEqualsBuffer == Request(GET, PathHello \o <<"?", "a", "=", "b", "=", "c">>, <<>>, <<>>)

MalformedBuffers ==
    {EmptyBuffer, UndecodableBuffer, TwoTokenBuffer, NoColonBuffer, TwoEqualsBuffer}

\* Buffers parse_http_request takes without raising: a request line of four
\* tokens, a header line with no blank line after it, a request line alone
FourTokenBuffer ==
    GET \o <<" ">> \o PathHello \o <<" ", "e", "x", "t", "r", "a", " ">> \o Http11 \o CRLF \o CRLF
NoBlankLineBuffer == GET \o <<" ">> \o PathHello \o <<" ">> \o Http11 \o CRLF \o HostX
RequestLineOnlyBuffer == GET \o <<" ">> \o PathHello \o <<" ">> \o Http11

ToleratedBuffers == {FourTokenBuffer, NoBlankLineBuffer, RequestLineOnlyBuffer}

RequestBuffers == WellFormedBuffers \cup MalformedBuffers \cup ToleratedBuffers

ReadError == [error |-> TRUE, data |-> <<>>]

Inputs == {ReadError} \cup {[error |-> FALSE, data |-> b] : b \in RequestBuffers}

(***************************************************************************)
(* The state machine                                                       *)
(***************************************************************************)
Init ==
    /\ phase = "setup"
    /\ routes = <<>>
    /\ nroutes = 0
    /\ registered = <<>>
    /\ conn = [c \in Tasks |-> IdleConn]
    /\ pure_call = NoCall
    /\ pure_result = NoResult

\* @app.route(url_path, methods) applied to func, before run()
Route(call) ==
    /\ phase = "setup"
    /\ nroutes < MaxRoutes
    /\ routes' = route(routes, call.url_path, call.methods, call.func)
    /\ nroutes' = nroutes + 1
    /\ registered' = Append(registered, call)
    /\ UNCHANGED <<phase, conn, pure_call, pure_result>>

\* run(): the server starts listening
Run ==
    /\ phase = "setup"
    /\ phase' = "running"
    /\ UNCHANGED <<routes, nroutes, registered, conn, pure_call, pure_result>>

\* loop.run_forever() runs one task at a time, each until its next await: no
\* task is resumed or created while a handler is running
EventLoopFree == \A c \in Tasks : conn[c].pc # "h_running"

\* Accept as with one thread per client: a running handler does not hold it back
Accept_Preemptive(c) ==
    /\ phase = "running"
    /\ conn[c].pc \in {"idle", "done", "crashed"}
    /\ conn' = [conn EXCEPT ![c] = [IdleConn EXCEPT !.pc = "read"]]
    /\ UNCHANGED <<phase, routes, nroutes, registered, pure_call, pure_result>>

\* start_server accepts a client and creates the task on_connect(reader, writer),
\* which runs to "await reader.read(...)"
Accept(c) ==
    /\ EventLoopFree
    /\ phase = "running"
    /\ conn[c].pc \in {"idle", "done", "crashed"}
    /\ conn' = [conn EXCEPT ![c] = [IdleConn EXCEPT !.pc = "read"]]
    /\ UNCHANGED <<phase, routes, nroutes, registered, pure_call, pure_result>>

\* ReadRequest that also drops the oldest entry of the route table
ReadRequest_DropsRoute(c, input) ==
    /\ EventLoopFree
    /\ conn[c].pc = "read"
    /\ conn' = [conn EXCEPT ![c] = OnRead(@, routes, c, input)]
    /\ routes' = IF routes = <<>> THEN routes ELSE Tail(routes)
    /\ UNCHANGED <<phase, nroutes, registered, pure_call, pure_result>>

\* reader.read returns (or raises); the task runs to its next suspension
ReadRequest(c, input) ==
    /\ EventLoopFree
    /\ conn[c].pc = "read"
    /\ conn' = [conn EXCEPT ![c] = OnRead(@, routes, c, input)]
    /\ UNCHANGED <<phase, routes, nroutes, registered, pure_call, pure_result>>

\* the awaited handler completes; send_function_results goes on to line 235
HandlerResume(c) ==
    /\ EventLoopFree
    /\ conn[c].pc = "h_await"
    /\ LET call == conn[c].calls[Len(conn[c].calls)]
       IN  conn' = [conn EXCEPT ![c] =
                       SendResult(@, Invoke(call.func, conn[c].req, call.url_wildcard))]
    /\ UNCHANGED <<phase, routes, nroutes, registered, pure_call, pure_result>>

\* DrainError that also stops the server
DrainError_StopsListening(c) ==
    /\ EventLoopFree
    /\ conn[c].pc = "drain_err"
    /\ conn' = [conn EXCEPT ![c].drained = Len(conn[c].out), ![c].pc = "final_drain"]
    /\ phase' = "stopped"
    /\ UNCHANGED <<routes, nroutes, registered, pure_call, pure_result>>

\* the drain() of send_error completes; on_connect goes on to its own drain() (line 433)
DrainError(c) ==
    /\ EventLoopFree
    /\ conn[c].pc = "drain_err"
    /\ conn' = [conn EXCEPT ![c].drained = Len(conn[c].out), ![c].pc = "final_drain"]
    /\ UNCHANGED <<phase, routes, nroutes, registered, pure_call, pure_result>>

\* DrainHeaders writing the body to the writer of the other connection
DrainHeaders_OtherWriter(c) ==
    /\ EventLoopFree
    /\ conn[c].pc = "drain_hdr"
    /\ LET d == CHOOSE t \in Tasks : t # c
       IN  conn' = [conn EXCEPT ![c].drained = Len(conn[c].out),
                                ![c].pc = "drain_body",
                                ![d].out = Append(@, Encode(conn[c].body))]
    /\ UNCHANGED <<phase, routes, nroutes, registered, pure_call, pure_result>>

\* the drain() of line 235 completes; the body is written (line 236)
DrainHeaders(c) ==
    /\ EventLoopFree
    /\ conn[c].pc = "drain_hdr"
    /\ conn' = [conn EXCEPT ![c].drained = Len(conn[c].out),
                            ![c].out = Append(@, Encode(conn[c].body)),
                            ![c].pc = "drain_body"]
    /\ UNCHANGED <<phase, routes, nroutes, registered, pure_call, pure_result>>

\* the drain() of line 237 completes
DrainBody(c) ==
    /\ EventLoopFree
    /\ conn[c].pc = "drain_body"
    /\ conn' = [conn EXCEPT ![c].drained = Len(conn[c].out), ![c].pc = "final_drain"]
    /\ UNCHANGED <<phase, routes, nroutes, registered, pure_call, pure_result>>

\* the drain() after a chunk completes; the next chunk is read and written
DrainChunk(c) ==
    /\ EventLoopFree
    /\ conn[c].pc = "drain_chunk"
    /\ conn' = [conn EXCEPT ![c] = StreamNext([@ EXCEPT !.drained = Len(conn[c].out)])]
    /\ UNCHANGED <<phase, routes, nroutes, registered, pure_call, pure_result>>

\* the drain() of line 433 completes; writer.close()
FinalDrain(c) ==
    /\ EventLoopFree
    /\ conn[c].pc = "final_drain"
    /\ conn' = [conn EXCEPT ![c].drained = Len(conn[c].out),
                            ![c].w_closed = TRUE,
                            ![c].pc = "wait_wclosed"]
    /\ UNCHANGED <<phase, routes, nroutes, registered, pure_call, pure_result>>

\* writer.wait_closed() completes; reader.close()
WriterClosed(c) ==
    /\ EventLoopFree
    /\ conn[c].pc = "wait_wclosed"
    /\ conn' = [conn EXCEPT ![c].r_closed = TRUE, ![c].pc = "wait_rclosed"]
    /\ UNCHANGED <<phase, routes, nroutes, registered, pure_call, pure_result>>

\* reader.wait_closed() completes; on_connect returns
ReaderClosed(c) ==
    /\ EventLoopFree
    /\ conn[c].pc = "wait_rclosed"
    /\ conn' = [conn EXCEPT ![c].pc = "done"]
    /\ UNCHANGED <<phase, routes, nroutes, registered, pure_call, pure_result>>

Next ==
    \/ \E call \in RouteCalls : Route(call)
    \/ Run
    \/ \E c \in Conns : Accept(c)
    \/ \E c \in Conns : \E input \in Inputs : ReadRequest(c, input)
    \/ \E c \in Conns : HandlerResume(c)
    \/ \E c \in Conns : DrainError(c)
    \/ \E c \in Conns : DrainHeaders(c)
    \/ \E c \in Conns : DrainBody(c)
    \/ \E c \in Conns : DrainChunk(c)
    \/ \E c \in Conns : FinalDrain(c)
    \/ \E c \in Conns : WriterClosed(c)
    \/ \E c \in Conns : ReaderClosed(c)

Spec == Init /\ [][Next]_vars


(***************************************************************************)
(* Several clients at once: start_server creates one on_connect task per   *)
(* client, and the tasks interleave at their suspension points             *)
(***************************************************************************)
ConcRouteCalls ==
    { RouteCall(PathGpio2, <<GET, PUT>>, "set_gpio_2"),
      RouteCall(PathSlow, <<GET>>, "get_slow"),
      RouteCall(PathADotB, <<GET>>, "hello") }

ConcInputs ==
    { [error |-> FALSE, data |-> b] :
        b \in { TwoTokenBuffer,
                Request(GET, PathADotB, <<>>, <<>>),
                Request(PUT, PathGpio2, <<>>, <<"0">>),
                Request(GET, PathSlow, <<>>, <<>>),
                Request(GET, PathRoot, <<>>, <<>>),
                Request(GET, PathAXB, <<>>, <<>>) } }

\* The steps of one task after its request has been read
Resume(c) ==
    \/ HandlerResume(c)
    \/ DrainError(c)
    \/ DrainHeaders(c)
    \/ DrainBody(c)
    \/ DrainChunk(c)
    \/ FinalDrain(c)
    \/ WriterClosed(c)
    \/ ReaderClosed(c)

ConcNext ==
    \/ \E call \in ConcRouteCalls : Route(call)
    \/ Run
    \/ \E c \in Tasks : Accept(c)
    \/ \E c \in Tasks : \E input \in ConcInputs : ReadRequest(c, input)
    \/ \E c \in Tasks : Resume(c)

ConcSpec == Init /\ [][ConcNext]_vars

\* The event loop runs every task that is ready: a drain, an awaited handler
\* or a wait_closed that can complete does complete
ConcFairSpec == ConcSpec /\ \A c \in Tasks : WF_vars(Resume(c))

\* An application with a handler that loops without ever awaiting, next to
\* one that awaits a sleep
StarveRouteCalls ==
    { RouteCall(PathSpin, <<GET>>, "spin"),
      RouteCall(PathSlow, <<GET>>, "get_slow") }

StarveInputs ==
    { [error |-> FALSE, data |-> b] :
        b \in { Request(GET, PathSpin, <<>>, <<>>),
                Request(GET, PathSlow, <<>>, <<>>),
                Request(GET, PathTestingTxt, <<>>, <<>>) } }

\* The steps of a task that wait for the client or the socket only
Proceed(c) ==
    \/ DrainError(c)
    \/ DrainHeaders(c)
    \/ DrainBody(c)
    \/ DrainChunk(c)
    \/ FinalDrain(c)
    \/ WriterClosed(c)
    \/ ReaderClosed(c)

StarveNext ==
    \/ \E call \in StarveRouteCalls : Route(call)
    \/ Run
    \/ \E c \in Tasks : Accept(c)
    \/ \E c \in Tasks : \E input \in StarveInputs : ReadRequest(c, input)
    \/ \E c \in Tasks : HandlerResume(c)
    \/ \E c \in Tasks : Proceed(c)

StarveSpec == Init /\ [][StarveNext]_vars

\* The event loop runs every task that is ready, and the clients read what
\* they are sent; how long an awaited handler sleeps is up to the handler
StarveFairSpec == StarveSpec /\ \A c \in Tasks : WF_vars(Proceed(c))

\* on_connect run from the return of reader.read to its end with no other
\* task in between
RECURSIVE RunToEnd(_)
RunToEnd(k) ==
    CASE k.pc = "h_await" ->
            RunToEnd(SendResult(k, Invoke(k.calls[Len(k.calls)].func, k.req,
                                          k.calls[Len(k.calls)].url_wildcard)))
      [] k.pc \in {"drain_err", "drain_body"} ->
            RunToEnd([k EXCEPT !.drained = Len(k.out), !.pc = "final_drain"])
      [] k.pc = "drain_hdr" ->
            RunToEnd([k EXCEPT !.drained = Len(k.out),
                               !.out = Append(@, Encode(k.body)),
                               !.pc = "drain_body"])
      [] k.pc = "drain_chunk" ->
            RunToEnd(StreamNext([k EXCEPT !.drained = Len(k.out)]))
      [] k.pc = "final_drain" ->
            RunToEnd([k EXCEPT !.drained = Len(k.out), !.w_closed = TRUE,
                               !.pc = "wait_wclosed"])
      [] k.pc = "wait_wclosed" ->
            RunToEnd([k EXCEPT !.r_closed = TRUE, !.pc = "wait_rclosed"])
      [] k.pc = "wait_rclosed" -> [k EXCEPT !.pc = "done"]
      [] OTHER -> k

\* The connection of client remote_addr served alone with the table rs
ServedAlone(rs, remote_addr, input) ==
    RunToEnd(OnRead([IdleConn EXCEPT !.pc = "read"], rs, remote_addr, input))


(***************************************************************************)
(* The static helpers called on their own: http_status_line, http_headers  *)
(* and parse_query_string applied to arguments drawn from bounded sets     *)
(***************************************************************************)
MaxStatus == 505
MaxContentLength == 12
MaxPairs == 2

TextHtml == <<"t", "e", "x", "t", "/", "h", "t", "m", "l">>

\* status codes: None, a str, and the integers from -1 to MaxStatus
StatusArgs ==
    {VNone, VStr(<<"2", "0", "0">>)} \cup {VInt(n) : n \in (0 - 1)..MaxStatus}

HeaderArgs ==
    [ content_length : 0..MaxContentLength,
      content_type : {<<>>, TextPlain, TextHtml},
      content_encoding : {<<>>, Gzip} ]

\* A mapping is the sequence of its (key, value) pairs in insertion order,
\* the keys distinct
QueryKeys == {<<>>, <<"a">>, <<"p", "e", "t">>}
QueryValues == {<<>>, <<"1">>, <<"r", "e", "d">>}
Pair(key, value) == [key |-> key, value |-> value]
QueryMappings ==
    UNION { { m \in [1..n -> {Pair(k, v) : k \in QueryKeys, v \in QueryValues}] :
                \A i, j \in 1..n : i # j => m[i].key # m[j].key } :
            n \in 0..MaxPairs }

\* key=value pairs joined with '&', as a client writes a query string
RECURSIVE stringify(_)
stringify(m) ==
    IF m = <<>> THEN <<>>
    ELSE Head(m).key \o <<"=">> \o Head(m).value
           \o (IF Len(m) > 1 THEN <<"&">> \o stringify(Tail(m)) ELSE <<>>)

PureCalls ==
    {[fn |-> "http_status_line", status_code |-> a] : a \in StatusArgs}
      \cup {[fn |-> "http_headers", args |-> a] : a \in HeaderArgs}
      \cup {[fn |-> "parse_query_string", mapping |-> m, query_string |-> stringify(m)] :
               m \in QueryMappings}

PureInit ==
    /\ phase = "setup"
    /\ routes = <<>>
    /\ nroutes = 0
    /\ registered = <<>>
    /\ conn = [c \in Tasks |-> IdleConn]
    /\ pure_call \in PureCalls
    /\ pure_result = NoResult

\* await Thimble.http_status_line(status_code)
CallStatusLine ==
    /\ pure_call.fn = "http_status_line"
    /\ ~pure_result.set
    /\ pure_result' = [set |-> TRUE, value |-> http_status_line(pure_call.status_code)]
    /\ UNCHANGED <<phase, routes, nroutes, registered, conn, pure_call>>

\* await Thimble.http_headers(content_length, content_type, content_encoding)
CallHeaders ==
    /\ pure_call.fn = "http_headers"
    /\ ~pure_result.set
    /\ pure_result' = [set |-> TRUE,
                       value |-> http_headers(pure_call.args.content_length,
                                              pure_call.args.content_type,
                                              pure_call.args.content_encoding)]
    /\ UNCHANGED <<phase, routes, nroutes, registered, conn, pure_call>>

\* Thimble.parse_query_string(query_string)
CallParseQueryString ==
    /\ pure_call.fn = "parse_query_string"
    /\ ~pure_result.set
    /\ pure_result' = [set |-> TRUE, value |-> parse_query_string(pure_call.query_string)]
    /\ UNCHANGED <<phase, routes, nroutes, registered, conn, pure_call>>

PureNext == CallStatusLine \/ CallHeaders \/ CallParseQueryString

PureSpec == PureInit /\ [][PureNext]_vars


(***************************************************************************)
(* Properties                                                              *)
(***************************************************************************)
\* What the claims speak of
Stopped(k) == k.pc \in {"done", "crashed"}
PastRead(k) == k.pc \notin {"idle", "read"}
Sent(k) == Concat(k.out)
BodySent(k) == Concat(SubSeq(k.out, 3, Len(k.out)))
Closed(k) == k.drained = Len(k.out) /\ k.w_closed /\ k.r_closed
LookupKey(k) == k.req.method \o k.req.path
LastCall(k) == k.calls[Len(k.calls)]
HandlerRaised(k) ==
    k.calls # <<>> /\ Invoke(LastCall(k).func, k.req, LastCall(k).url_wildcard).raised
HandlerReturned(k) ==
    /\ k.calls # <<>>
    /\ ~HandlerRaised(k)
    /\ k.pc \in {"drain_hdr", "drain_body", "final_drain", "wait_wclosed", "wait_rclosed", "done"}
BodyComplete(k) == k.pc \in {"final_drain", "wait_wclosed", "wait_rclosed", "done"}

\* A stored key is a wildcard pattern when it holds a capturing sub-pattern;
\* a key matches a lookup key when it equals it or is a wildcard pattern
\* that matches the whole of it
IsWildcardKey(key) == SubPatternOf(key) # <<>>
WildcardMatches(key, lookup) == IsWildcardKey(key) /\ RegexSearch(key, lookup).matched
KeyMatches(key, lookup) == key = lookup \/ WildcardMatches(key, lookup)
NoMatchingRoute(k) == \A i \in 1..Len(routes) : ~KeyMatches(routes[i].key, LookupKey(k))

\* The file the request path names under the static folder
StaticPath(k) ==
    LET p == static_folder \o k.req.path
    IN  IF p[Len(p)] = "/" THEN p \o directory_index ELSE p

\* The responses, byte for byte
Resp400 ==
    <<"H", "T", "T", "P", "/", "1", ".", "1", " ", "4", "0", "0", " ", "B", "a", "d", " ", "R",
      "e", "q", "u", "e", "s", "t", CR, LF, "C", "o", "n", "n", "e", "c", "t", "i", "o", "n",
      ":", " ", "c", "l", "o", "s", "e", CR, LF, "C", "o", "n", "t", "e", "n", "t", "-", "L",
      "e", "n", "g", "t", "h", ":", " ", "1", "8", CR, LF, "C", "o", "n", "t", "e", "n", "t",
      "-", "T", "y", "p", "e", ":", " ", "t", "e", "x", "t", "/", "p", "l", "a", "i", "n", CR,
      LF, "S", "e", "r", "v", "e", "r", ":", " ", "T", "h", "i", "m", "b", "l", "e", " ", "(",
      "M", "i", "c", "r", "o", "P", "y", "t", "h", "o", "n", ")", CR, LF, CR, LF, "4", "0",
      "0", ":", " ", "B", "a", "d", " ", "R", "e", "q", "u", "e", "s", "t", CR, LF>>
Resp404 ==
    <<"H", "T", "T", "P", "/", "1", ".", "1", " ", "4", "0", "4", " ", "N", "o", "t", " ", "F",
      "o", "u", "n", "d", CR, LF, "C", "o", "n", "n", "e", "c", "t", "i", "o", "n", ":", " ",
      "c", "l", "o", "s", "e", CR, LF, "C", "o", "n", "t", "e", "n", "t", "-", "L", "e", "n",
      "g", "t", "h", ":", " ", "1", "6", CR, LF, "C", "o", "n", "t", "e", "n", "t", "-", "T",
      "y", "p", "e", ":", " ", "t", "e", "x", "t", "/", "p", "l", "a", "i", "n", CR, LF, "S",
      "e", "r", "v", "e", "r", ":", " ", "T", "h", "i", "m", "b", "l", "e", " ", "(", "M", "i",
      "c", "r", "o", "P", "y", "t", "h", "o", "n", ")", CR, LF, CR, LF, "4", "0", "4", ":",
      " ", "N", "o", "t", " ", "F", "o", "u", "n", "d", CR, LF>>
Resp500 ==
    <<"H", "T", "T", "P", "/", "1", ".", "1", " ", "5", "0", "0", " ", "I", "n", "t", "e", "r",
      "n", "a", "l", " ", "S", "e", "r", "v", "e", "r", " ", "E", "r", "r", "o", "r", CR, LF,
      "C", "o", "n", "n", "e", "c", "t", "i", "o", "n", ":", " ", "c", "l", "o", "s", "e", CR,
      LF, "C", "o", "n", "t", "e", "n", "t", "-", "L", "e", "n", "g", "t", "h", ":", " ", "2",
      "8", CR, LF, "C", "o", "n", "t", "e", "n", "t", "-", "T", "y", "p", "e", ":", " ", "t",
      "e", "x", "t", "/", "p", "l", "a", "i", "n", CR, LF, "S", "e", "r", "v", "e", "r", ":",
      " ", "T", "h", "i", "m", "b", "l", "e", " ", "(", "M", "i", "c", "r", "o", "P", "y", "t",
      "h", "o", "n", ")", CR, LF, CR, LF, "5", "0", "0", ":", " ", "I", "n", "t", "e", "r",
      "n", "a", "l", " ", "S", "e", "r", "v", "e", "r", " ", "E", "r", "r", "o", "r", CR, LF>>
RespHello ==
    <<"H", "T", "T", "P", "/", "1", ".", "1", " ", "2", "0", "0", " ", "O", "K", CR, LF, "C", "o",
      "n", "n", "e", "c", "t", "i", "o", "n", ":", " ", "c", "l", "o", "s", "e", CR, LF, "C",
      "o", "n", "t", "e", "n", "t", "-", "L", "e", "n", "g", "t", "h", ":", " ", "6", CR, LF,
      "C", "o", "n", "t", "e", "n", "t", "-", "T", "y", "p", "e", ":", " ", "t", "e", "x", "t",
      "/", "p", "l", "a", "i", "n", CR, LF, "S", "e", "r", "v", "e", "r", ":", " ", "T", "h",
      "i", "m", "b", "l", "e", " ", "(", "M", "i", "c", "r", "o", "P", "y", "t", "h", "o", "n",
      ")", CR, LF, CR, LF, "H", "e", "l", "l", "o", "!">>
RespOn ==
    <<"H", "T", "T", "P", "/", "1", ".", "1", " ", "2", "0", "0", " ", "O", "K", CR, LF, "C", "o",
      "n", "n", "e", "c", "t", "i", "o", "n", ":", " ", "c", "l", "o", "s", "e", CR, LF, "C",
      "o", "n", "t", "e", "n", "t", "-", "L", "e", "n", "g", "t", "h", ":", " ", "2", CR, LF,
      "C", "o", "n", "t", "e", "n", "t", "-", "T", "y", "p", "e", ":", " ", "t", "e", "x", "t",
      "/", "p", "l", "a", "i", "n", CR, LF, "S", "e", "r", "v", "e", "r", ":", " ", "T", "h",
      "i", "m", "b", "l", "e", " ", "(", "M", "i", "c", "r", "o", "P", "y", "t", "h", "o", "n",
      ")", CR, LF, CR, LF, "o", "n">>
RespTemp ==
    <<"H", "T", "T", "P", "/", "1", ".", "1", " ", "2", "0", "0", " ", "O", "K", CR, LF, "C", "o",
      "n", "n", "e", "c", "t", "i", "o", "n", ":", " ", "c", "l", "o", "s", "e", CR, LF, "C",
      "o", "n", "t", "e", "n", "t", "-", "L", "e", "n", "g", "t", "h", ":", " ", "1", CR, LF,
      "C", "o", "n", "t", "e", "n", "t", "-", "T", "y", "p", "e", ":", " ", "t", "e", "x", "t",
      "/", "p", "l", "a", "i", "n", CR, LF, "S", "e", "r", "v", "e", "r", ":", " ", "T", "h",
      "i", "m", "b", "l", "e", " ", "(", "M", "i", "c", "r", "o", "P", "y", "t", "h", "o", "n",
      ")", CR, LF, CR, LF, "0">>
RespSlow ==
    <<"H", "T", "T", "P", "/", "1", ".", "1", " ", "2", "0", "0", " ", "O", "K", CR, LF, "C", "o",
      "n", "n", "e", "c", "t", "i", "o", "n", ":", " ", "c", "l", "o", "s", "e", CR, LF, "C",
      "o", "n", "t", "e", "n", "t", "-", "L", "e", "n", "g", "t", "h", ":", " ", "1", "9", CR,
      LF, "C", "o", "n", "t", "e", "n", "t", "-", "T", "y", "p", "e", ":", " ", "t", "e", "x",
      "t", "/", "p", "l", "a", "i", "n", CR, LF, "S", "e", "r", "v", "e", "r", ":", " ", "T",
      "h", "i", "m", "b", "l", "e", " ", "(", "M", "i", "c", "r", "o", "P", "y", "t", "h", "o",
      "n", ")", CR, LF, CR, LF, "(", "'", "a", "'", ",", " ", "2", "0", "0", ",", " ", "N",
      "o", "n", "e", ",", " ", "7", ")">>
RespJson ==
    <<"H", "T", "T", "P", "/", "1", ".", "1", " ", "2", "0", "0", " ", "O", "K", CR, LF, "C", "o",
      "n", "n", "e", "c", "t", "i", "o", "n", ":", " ", "c", "l", "o", "s", "e", CR, LF, "C",
      "o", "n", "t", "e", "n", "t", "-", "L", "e", "n", "g", "t", "h", ":", " ", "2", "4", CR,
      LF, "C", "o", "n", "t", "e", "n", "t", "-", "T", "y", "p", "e", ":", " ", "a", "p", "p",
      "l", "i", "c", "a", "t", "i", "o", "n", "/", "j", "s", "o", "n", CR, LF, "S", "e", "r",
      "v", "e", "r", ":", " ", "T", "h", "i", "m", "b", "l", "e", " ", "(", "M", "i", "c", "r",
      "o", "P", "y", "t", "h", "o", "n", ")", CR, LF, CR, LF, "{", "\"", "m", "s", "g", "\"",
      ":", " ", "\"", "T", "e", "s", "t", "i", "n", "g", " ", "1", " ", "2", " ", "3", "\"", "}">>
RespRoot ==
    <<"H", "T", "T", "P", "/", "1", ".", "1", " ", "2", "0", "0", " ", "O", "K", CR, LF, "C", "o",
      "n", "n", "e", "c", "t", "i", "o", "n", ":", " ", "c", "l", "o", "s", "e", CR, LF, "C",
      "o", "n", "t", "e", "n", "t", "-", "L", "e", "n", "g", "t", "h", ":", " ", "2", "2", CR,
      LF, "C", "o", "n", "t", "e", "n", "t", "-", "T", "y", "p", "e", ":", " ", "t", "e", "x",
      "t", "/", "h", "t", "m", "l", CR, LF, "S", "e", "r", "v", "e", "r", ":", " ", "T", "h",
      "i", "m", "b", "l", "e", " ", "(", "M", "i", "c", "r", "o", "P", "y", "t", "h", "o", "n",
      ")", CR, LF, CR, LF, "<", "t", "i", "t", "l", "e", ">", "T", "e", "s", "t", "i", "n",
      "g", "<", "/", "t", "i", "t", "l", "e", ">">>
RespRootGzip ==
    <<"H", "T", "T", "P", "/", "1", ".", "1", " ", "2", "0", "0", " ", "O", "K", CR, LF, "C", "o",
      "n", "n", "e", "c", "t", "i", "o", "n", ":", " ", "c", "l", "o", "s", "e", CR, LF, "C",
      "o", "n", "t", "e", "n", "t", "-", "E", "n", "c", "o", "d", "i", "n", "g", ":", " ", "g",
      "z", "i", "p", CR, LF, "C", "o", "n", "t", "e", "n", "t", "-", "L", "e", "n", "g", "t",
      "h", ":", " ", "5", CR, LF, "C", "o", "n", "t", "e", "n", "t", "-", "T", "y", "p", "e",
      ":", " ", "t", "e", "x", "t", "/", "h", "t", "m", "l", CR, LF, "S", "e", "r", "v", "e",
      "r", ":", " ", "T", "h", "i", "m", "b", "l", "e", " ", "(", "M", "i", "c", "r", "o", "P",
      "y", "t", "h", "o", "n", ")", CR, LF, CR, LF, "x1F", "x8B", "x08", "z", "1">>
Line200 ==
    <<"H", "T", "T", "P", "/", "1", ".", "1", " ", "2", "0", "0", " ", "O", "K", CR, LF>>
EncodingGzipLine ==
    <<"C", "o", "n", "t", "e", "n", "t", "-", "E", "n", "c", "o", "d", "i", "n", "g", ":", " ",
      "g", "z", "i", "p", CR, LF>>
KeyGpioInt ==
    <<"G", "E", "T", "/", "g", "p", "i", "o", "/", "(", "[", "0", "-", "9", "]", "+", ")">>
KeyAnyString ==
    <<"G", "E", "T", "/", "(", ".", "*", ")">>
KeyGpio2 ==
    <<"G", "E", "T", "/", "g", "p", "i", "o", "/", "2">>
KeyPutNightlight ==
    <<"P", "U", "T", "/", "n", "i", "g", "h", "t", "l", "i", "g", "h", "t">>

\* C1: every accepted connection whose task has stopped running has written a
\* complete response (a status line, a header block and what follows), has
\* drained it, and has closed the writer and the reader.
C1_StoppedTaskRespondedAndClosed ==
    \A c \in Conns :
        Stopped(conn[c]) =>
            /\ Len(conn[c].out) >= 2
            /\ OccursAt(conn[c].out[1], HttpVersionPrefix, 1)
            /\ Closed(conn[c])

\* C2: when the matched handler raises, what is sent is exactly the fixed 500
\* response and nothing else, the error does not leave the connection task,
\* and the task ends with the response drained and both sides closed.
C2_HandlerErrorGives500 ==
    \A c \in Conns :
        HandlerRaised(conn[c]) =>
            /\ conn[c].pc # "crashed"
            /\ Sent(conn[c]) = Resp500
            /\ (conn[c].pc = "done" => Closed(conn[c]))

C2_Witness ==
    \E c \in Conns :
        /\ HandlerRaised(conn[c])
        /\ conn[c].pc = "done"
        /\ Sent(conn[c]) = Resp500
        /\ Closed(conn[c])

\* C3: when reading or parsing the request fails, the connection answers with
\* the fixed 400 response without any route resolution, handler call or
\* static file lookup, and is then closed.
C3_ParseFailureGives400 ==
    \A c \in Conns :
        ( /\ PastRead(conn[c])
          /\ \/ ~conn[c].got_buffer
             \/ conn[c].req_buffer \in MalformedBuffers
             \/ ~conn[c].req.ok )
        =>  /\ ~conn[c].resolved
            /\ conn[c].calls = <<>>
            /\ conn[c].stats = <<>>
            /\ conn[c].pc # "crashed"
            /\ Sent(conn[c]) = Resp400
            /\ (conn[c].pc = "done" => Closed(conn[c]))

C3_Witness ==
    /\ \E c \in Conns :
          /\ conn[c].pc = "done"
          /\ conn[c].got_buffer
          /\ conn[c].req_buffer = TwoTokenBuffer
          /\ Sent(conn[c]) = Resp400
          /\ Closed(conn[c])
    /\ routes # <<>>

\* C4: when a lookup key equals no stored key and matches two or more wildcard
\* patterns, resolve_route returns the handler of the one registered first,
\* with the capture of that pattern.
C4_FirstWildcardWins ==
    \A c \in Conns :
        LET k == conn[c]
            hits == {i \in 1..Len(routes) : WildcardMatches(routes[i].key, LookupKey(k))}
            first == CHOOSE i \in hits : \A j \in hits : i <= j
        IN  ( /\ k.resolved
              /\ \A i \in 1..Len(routes) : routes[i].key # LookupKey(k)
              /\ Cardinality(hits) >= 2 )
            => k.route_value =
                   RouteTuple(routes[first].func,
                              RegexSearch(routes[first].key, LookupKey(k)).group1)

\* C5: a lookup key equal to a stored key resolves to that key's handler with
\* no capture, whatever wildcard patterns are registered before or after it.
C5_ExactMatchFirst ==
    \A c \in Conns :
        LET k == conn[c]
        IN  (k.resolved /\ \E i \in 1..Len(routes) : routes[i].key = LookupKey(k))
            => \E i \in 1..Len(routes) :
                   /\ routes[i].key = LookupKey(k)
                   /\ k.route_value = RouteFunc(routes[i].func)
                   /\ \A j \in 1..Len(k.calls) :
                          k.calls[j] = [func |-> routes[i].func, url_wildcard |-> VNone]

C5_Witness ==
    /\ Len(routes) >= 2
    /\ routes[1].key = KeyGpioInt
    /\ routes[2].key = KeyGpio2
    /\ \E c \in Conns :
          /\ conn[c].pc = "done"
          /\ conn[c].resolved
          /\ LookupKey(conn[c]) = KeyGpio2
          /\ conn[c].route_value = RouteFunc(routes[2].func)

\* C6: a handler is called with a capture exactly when its route was resolved
\* by a wildcard match, the capture being what the pattern's group matched;
\* a handler resolved by a literal match gets the request only. With only
\* GET /gpio/<int> registered, GET /gpio/2 calls the handler with "2".
C6_CaptureIffWildcard ==
    \A c \in Conns :
        LET k == conn[c]
        IN  /\ Len(k.calls) <= 1
            /\ \A j \in 1..Len(k.calls) :
                  /\ (k.calls[j].url_wildcard.t # "none") <=> (k.route_value.kind = "tuple")
                  /\ k.route_value.kind = "tuple" =>
                        \E i \in 1..Len(routes) :
                            /\ WildcardMatches(routes[i].key, LookupKey(k))
                            /\ routes[i].func = k.calls[j].func
                            /\ k.calls[j].url_wildcard =
                                   VStr(RegexSearch(routes[i].key, LookupKey(k)).group1)
                  /\ k.route_value.kind # "tuple" =>
                        \E i \in 1..Len(routes) :
                            /\ routes[i].key = LookupKey(k)
                            /\ routes[i].func = k.calls[j].func
            /\ ( /\ routes = <<[key |-> KeyGpioInt, func |-> "get_gpio"]>>
                 /\ PastRead(k)
                 /\ k.got_buffer
                 /\ k.req_buffer = Request(GET, PathGpio2, <<>>, <<>>) )
               => k.calls = <<[func |-> "get_gpio", url_wildcard |-> VStr(<<"2">>)]>>

C6_Witness ==
    /\ routes = <<[key |-> KeyGpioInt, func |-> "get_gpio"]>>
    /\ \E c \in Conns :
          /\ conn[c].pc = "done"
          /\ conn[c].req_buffer = Request(GET, PathGpio2, <<>>, <<>>)
          /\ conn[c].calls = <<[func |-> "get_gpio", url_wildcard |-> VStr(<<"2">>)]>>

C8_StaticFallback ==
    \A c \in Conns :
        LET k == conn[c]
        IN  /\ k.stats # <<>> =>
                  /\ k.resolved
                  /\ k.route_value = NoRoute
                  /\ k.calls = <<>>
                  /\ k.stats = <<StaticPath(k) \o GzipSuffix, StaticPath(k)>>
            /\ ( /\ Stopped(k)
                 /\ k.req.ok
                 /\ NoMatchingRoute(k)
                 /\ StaticPath(k) \notin FsPaths
                 /\ StaticPath(k) \o GzipSuffix \notin FsPaths )
               => Sent(k) = Resp404
            /\ ( /\ Stopped(k)
                 /\ k.req.ok
                 /\ NoMatchingRoute(k)
                 /\ k.req.path = PathRoot
                 /\ AcceptEncoding \notin DOMAIN k.req.headers )
               => Sent(k) = RespRoot

\* C9: routes are keyed by method and path together. A request whose path is
\* registered for other methods only, which matches no route and names no
\* static file, is answered 404 and no handler is called; with PUT /nightlight
\* registered, PUT with body 'on' is answered 200 'on' and GET is answered 404.
C9_MethodAndPathKeyed ==
    \A c \in Conns :
        LET k == conn[c]
            otherMethod ==
                \E i \in 1..Len(routes) : \E m \in {GET, PUT} :
                    m # k.req.method /\ routes[i].key = m \o k.req.path
        IN  /\ ( /\ Stopped(k)
                 /\ k.req.ok
                 /\ otherMethod
                 /\ NoMatchingRoute(k)
                 /\ StaticPath(k) \notin FsPaths
                 /\ StaticPath(k) \o GzipSuffix \notin FsPaths )
               => (Sent(k) = Resp404 /\ k.calls = <<>>)
            /\ ( /\ k.pc = "done"
                 /\ routes = <<[key |-> KeyPutNightlight, func |-> "set_nightlight"]>>
                 /\ k.req_buffer = Request(PUT, PathNightlight, <<HostX>>, BodyOn) )
               => Sent(k) = RespOn
            /\ ( /\ k.pc = "done"
                 /\ routes = <<[key |-> KeyPutNightlight, func |-> "set_nightlight"]>>
                 /\ k.req_buffer = Request(GET, PathNightlight, <<>>, <<>>) )
               => (Sent(k) = Resp404 /\ k.calls = <<>>)

\* C10: in the static streamer, (a) when the .gzip sibling exists and the
\* request's Accept-Encoding contains 'gzip' in any letter case, the sibling is
\* sent with status 200, Content-Encoding: gzip and its own size; (b) otherwise
\* the plain file, when it exists, is sent with status 200, no Content-Encoding
\* and its own size; (c) otherwise the answer is 404.
C10_GzipNegotiation ==
    \A c \in Conns :
        LET k == conn[c]
            plain == k.stats[2]
            sibling == k.stats[1]
            accepts == /\ AcceptEncoding \in DOMAIN k.req.headers
                       /\ Contains(Upper(k.req.headers[AcceptEncoding]), Upper(Gzip))
            lengthLine(n) == HdrContentLength \o IntToStr(n) \o CRLF
        IN  (PastRead(k) /\ k.stats # <<>>) =>
                IF sibling \in FsPaths /\ accepts
                THEN /\ k.out[1] = Line200
                     /\ Contains(k.out[2], EncodingGzipLine)
                     /\ Contains(k.out[2], lengthLine(Len(FsContents(sibling))))
                     /\ BodyComplete(k) => BodySent(k) = FsContents(sibling)
                     /\ (k.pc = "done" /\ k.req.path = PathRoot) => Sent(k) = RespRootGzip
                ELSE IF plain \in FsPaths
                THEN /\ k.out[1] = Line200
                     /\ ~Contains(k.out[2], HdrContentEncoding)
                     /\ Contains(k.out[2], lengthLine(Len(FsContents(plain))))
                     /\ BodyComplete(k) => BodySent(k) = FsContents(plain)
                     /\ (k.pc = "done" /\ k.req.path = PathRoot) => Sent(k) = RespRoot
                ELSE Sent(k) = Resp404

C10_Witness ==
    \E c \in Conns :
        /\ conn[c].pc = "done"
        /\ conn[c].req_buffer = Request(GET, PathRoot, <<HostX, AcceptGzip>>, <<>>)
        /\ conn[c].stats # <<>>
        /\ Sent(conn[c]) = RespRootGzip

\* The header block of a response, line by line, and the value of its
\* Content-Length lines
HeaderBlockLines(k) == Split(k.out[2], CRLF)
ContentLengthValues(k) ==
    { Slice(HeaderBlockLines(k)[i], Len(HdrContentLength) + 1, Len(HeaderBlockLines(k)[i])) :
        i \in { j \in 1..Len(HeaderBlockLines(k)) :
                    OccursAt(HeaderBlockLines(k)[j], HdrContentLength, 1) } }

\* C11: every complete response carries exactly one Content-Length header whose
\* value is the number of bytes written after the header block; GET /hello
\* answered by the handler that returns 'Hello!' is 200, Content-Length 6,
\* body 'Hello!'.
C11_ContentLengthIsBodyLength ==
    \A c \in Conns :
        LET k == conn[c]
        IN  /\ (BodyComplete(k) /\ Len(k.out) >= 2) =>
                  ContentLengthValues(k) = {IntToStr(Len(BodySent(k)))}
            /\ (k.pc = "done" /\ k.calls # <<>> /\ LastCall(k).func = "hello") =>
                  Sent(k) = RespHello

\* What a helper called on its own returned
Returned_http_status_line == pure_result.set /\ pure_call.fn = "http_status_line"
Returned_http_headers == pure_result.set /\ pure_call.fn = "http_headers"
Returned_parse_query_string == pure_result.set /\ pure_call.fn = "parse_query_string"

Line302 ==
    <<"H", "T", "T", "P", "/", "1", ".", "1", " ", "3", "0", "2", " ", "F", "o", "u", "n", "d",
      CR, LF>>
Line400 ==
    <<"H", "T", "T", "P", "/", "1", ".", "1", " ", "4", "0", "0", " ", "B", "a", "d", " ", "R",
      "e", "q", "u", "e", "s", "t", CR, LF>>
Line404 ==
    <<"H", "T", "T", "P", "/", "1", ".", "1", " ", "4", "0", "4", " ", "N", "o", "t", " ", "F",
      "o", "u", "n", "d", CR, LF>>
Line500 ==
    <<"H", "T", "T", "P", "/", "1", ".", "1", " ", "5", "0", "0", " ", "I", "n", "t", "e", "r",
      "n", "a", "l", " ", "S", "e", "r", "v", "e", "r", " ", "E", "r", "r", "o", "r", CR, LF>>

\* C12: http_status_line always returns a status line: for 200, 302, 400, 404
\* and 500 the line of that code, for every other code and for None exactly
\* 'HTTP/1.1 500 Internal Server Error'.
C12_UnknownStatusIs500 ==
    Returned_http_status_line =>
        LET a == pure_call.status_code
        IN  pure_result.value =
                IF a.t # "int" THEN Line500
                ELSE CASE a.n = 200 -> Line200
                       [] a.n = 302 -> Line302
                       [] a.n = 400 -> Line400
                       [] a.n = 404 -> Line404
                       [] OTHER -> Line500

C12_Witness ==
    /\ Returned_http_status_line
    /\ pure_call.status_code = VNone
    /\ pure_result.value = Line500

FieldConnectionClose ==
    <<"C", "o", "n", "n", "e", "c", "t", "i", "o", "n", ":", " ", "c", "l", "o", "s", "e">>
FieldServer ==
    <<"S", "e", "r", "v", "e", "r", ":", " ", "T", "h", "i", "m", "b", "l", "e", " ", "(", "M",
      "i", "c", "r", "o", "P", "y", "t", "h", "o", "n", ")">>
NameContentEncoding ==
    <<"C", "o", "n", "t", "e", "n", "t", "-", "E", "n", "c", "o", "d", "i", "n", "g", ":", " ">>
NameContentLength ==
    <<"C", "o", "n", "t", "e", "n", "t", "-", "L", "e", "n", "g", "t", "h", ":", " ">>
NameContentType ==
    <<"C", "o", "n", "t", "e", "n", "t", "-", "T", "y", "p", "e", ":", " ">>

MappingDict(m) ==
    [key \in {m[i].key : i \in 1..Len(m)} |->
        (CHOOSE p \in {m[i] : i \in 1..Len(m)} : p.key = key).value]

\* C18: for every mapping whose keys and values hold no '&' and no '=', the
\* empty mapping and empty values included, parse_query_string of its pairs
\* joined as key=value with '&' is the mapping itself.
C18_QueryRoundTrip ==
    Returned_parse_query_string =>
        /\ pure_result.value.ok
        /\ pure_result.value.query = MappingDict(pure_call.mapping)

KeyGetHello ==
    <<"G", "E", "T", "/", "h", "e", "l", "l", "o">>

\* The keys a registration call stores: the uppercased method followed by the
\* path pattern, one per method; none when the call fails
CallKeys(call) ==
    IF RoutePath(call.url_path).ok
    THEN { Upper(call.methods[i]) \o RoutePath(call.url_path).url_path :
             i \in 1..Len(call.methods) }
    ELSE {}

\* C14: after any sequence of registration calls the table holds exactly the
\* keys those calls stored, one entry per key, each with the handler of the
\* last call that stored it; a call with several methods gives each of its
\* keys the same handler; a call with the default methods stores the GET key
\* only; nothing is removed.
C14_LastRegistrationWins ==
    /\ {routes[i].key : i \in 1..Len(routes)} =
          UNION {CallKeys(registered[n]) : n \in 1..Len(registered)}
    /\ \A i, j \in 1..Len(routes) : routes[i].key = routes[j].key => i = j
    /\ \A i \in 1..Len(routes) :
          LET users == {n \in 1..Len(registered) : routes[i].key \in CallKeys(registered[n])}
              last == CHOOSE n \in users : \A m \in users : m <= n
          IN  routes[i].func = registered[last].func
    /\ (registered # <<>> /\ registered[Len(registered)] = RouteCall(PathGpio2, <<GET, PUT>>, "set_gpio_2"))
          => \A m \in {GET, PUT} :
                 \E i \in 1..Len(routes) :
                     routes[i] = [key |-> m \o PathGpio2, func |-> "set_gpio_2"]
    /\ (registered = <<RouteCall(PathHello, DefaultMethods, "hello")>>)
          => routes = <<[key |-> KeyGetHello, func |-> "hello"]>>

C14_Witness ==
    /\ registered = << RouteCall(PathHello, DefaultMethods, "hello"),
                       RouteCall(PathHello, <<GET>>, "get_degrees") >>
    /\ routes = <<[key |-> KeyGetHello, func |-> "get_degrees"]>>


\* C17: a handler response whose handler supplies no content type (a bare body
\* or a two-element result) carries the default content type configured on
\* the instance.
C17_ConfiguredDefaultContentType ==
    \A c \in Conns :
        LET k == conn[c]
            v == Invoke(LastCall(k).func, k.req, LastCall(k).url_wildcard).value
        IN  (HandlerReturned(k) /\ ~(v.t = "tuple" /\ Len(v.e) = 3)) =>
                \E i \in 1..Len(HeaderBlockLines(k)) :
                    HeaderBlockLines(k)[i] = NameContentType \o default_content_type

\* C20: a lookup key that equals no stored key and matches no wildcard pattern
\* resolves to 'no route' without error; a stored key without a capturing
\* sub-pattern is matched by equality only.
C20_LiteralKeysByEquality ==
    \A c \in Conns :
        LET k == conn[c]
        IN  /\ (PastRead(k) /\ k.got_buffer /\ parse_http_request(k.req_buffer).ok) =>
                  (k.resolved /\ k.pc # "crashed" /\ k.route_value.kind # "raise")
            /\ (k.resolved /\ NoMatchingRoute(k)) => k.route_value = NoRoute
            /\ (k.resolved /\ k.route_value.kind \in {"func", "tuple"}) =>
                  \E i \in 1..Len(routes) :
                      /\ KeyMatches(routes[i].key, LookupKey(k))
                      /\ routes[i].func = k.route_value.func

KeyGetADotB ==
    <<"G", "E", "T", "/", "a", ".", "b">>

\* What the client of a connection sent, and the connection as it ends when
\* it is the only one served
InputOf(k) ==
    IF k.got_buffer THEN [error |-> FALSE, data |-> k.req_buffer] ELSE ReadError
AloneOutcome(c) == ServedAlone(routes, c, InputOf(conn[c]))
IsPrefix(s, t) == Len(s) <= Len(t) /\ SubSeq(t, 1, Len(s)) = s
InFlight(k) ==
    k.pc \in {"h_await", "drain_err", "drain_hdr", "drain_body", "drain_chunk",
              "final_drain", "wait_wclosed", "wait_rclosed"}
ErrorOutcome(k) == k.pc = "done" /\ Sent(k) \in {Resp400, Resp404, Resp500}

C16_ErrorsAreLocal ==
    /\ [](\A c \in Tasks :
            ErrorOutcome(conn[c]) => (phase = "running" /\ ENABLED Accept(c)))
    /\ \A c, d \in Tasks :
          (c # d /\ ErrorOutcome(conn[c]) /\ InFlight(conn[d]))
              ~> ( /\ conn[d].pc = "done"
                   /\ Closed(conn[d])
                   /\ conn[d] = AloneOutcome(d) )

C16_Witness ==
    /\ ErrorOutcome(conn["c1"])
    /\ Sent(conn["c1"]) = Resp500
    /\ conn["c2"].pc = "drain_body"
    /\ conn["c2"].req_buffer = Request(GET, PathADotB, <<>>, <<>>)
    /\ conn["c2"].calls # <<>>

\* The table the registration calls made so far build
RECURSIVE TableOf(_)
TableOf(calls) ==
    IF calls = <<>> THEN <<>>
    ELSE LET call == calls[Len(calls)]
         IN  route(TableOf(SubSeq(calls, 1, Len(calls) - 1)),
                   call.url_path, call.methods, call.func)

\* C19: no step of a connection changes the route table, which is always the
\* table the registration calls built; a connection ends as it would end
\* alone whatever connections were served before it.
C19_ConnectionsLeaveTableAlone ==
    /\ [](routes = TableOf(registered))
    /\ [][conn' # conn => routes' = routes]_vars
    /\ [](\A c \in Tasks : Stopped(conn[c]) => conn[c] = AloneOutcome(c))

C19_Witness ==
    /\ Len(registered) = 2
    /\ routes # <<>>
    /\ conn["c1"].pc = "done"
    /\ conn["c1"].calls # <<>>
    /\ conn["c2"].pc = "done"
    /\ conn["c2"].stats # <<>>


\* What a connection that streams a file has read and written of it
Streaming(k) == k.file_path # <<>>
ChunksWritten(k) == SubSeq(k.out, 3, Len(k.out))
ChunksDrained(k) == SubSeq(k.out, 3, k.drained)
NthChunk(data, n) ==
    Slice(data, (n - 1) * ChunkSize + 1,
          IF n * ChunkSize < Len(data) THEN n * ChunkSize ELSE Len(data))

\* C21: while a static file is streamed, the n-th chunk written is the n-th
\* ChunkSize bytes of the file (the last one what is left), what has been read
\* of the file is what has been written, at most one chunk of at most
\* ChunkSize bytes is read and not yet drained, a further chunk is read only
\* when every write before it has been drained, and once the loop has ended
\* the chunks written are together the contents of the file.
C21_ChunksInOrderOneAtATime ==
    /\ [](\A c \in Conns :
            LET k == conn[c]
                data == FsContents(k.file_path)
            IN  Streaming(k) =>
                  /\ \A n \in 1..Len(ChunksWritten(k)) :
                        /\ ChunksWritten(k)[n] = NthChunk(data, n)
                        /\ Len(ChunksWritten(k)[n]) \in 1..ChunkSize
                  /\ k.file_pos = Len(Concat(ChunksWritten(k)))
                  /\ Len(ChunksWritten(k)) - Len(ChunksDrained(k)) <= 1
                  /\ k.file_pos - Len(Concat(ChunksDrained(k))) <= ChunkSize
                  /\ (BodyComplete(k) => Concat(ChunksWritten(k)) = data))
    /\ [][\A c \in Conns :
            (Streaming(conn[c]) /\ conn'[c].file_pos > conn[c].file_pos)
                => conn'[c].drained = Len(conn[c].out)]_vars

C21_Witness ==
    \E c \in Conns :
        /\ conn[c].pc = "done"
        /\ conn[c].file_path = FsBigTxt
        /\ Len(ChunksWritten(conn[c])) = 3
        /\ Len(ChunksWritten(conn[c])[3]) = 6
        /\ Concat(ChunksWritten(conn[c])) = BigFile
        /\ Closed(conn[c])


\* Where a connection task can be when another task runs: no task (not yet
\* accepted, returned, or ended by an error), or suspended in an await
NoTask(k) == k.pc \in {"idle", "done", "crashed"}
AwaitingBytes(k) == k.pc = "read"
AwaitingDrain(k) == k.pc \in {"drain_err", "drain_hdr", "drain_body", "final_drain"}
AwaitingHandler(k) == k.pc = "h_await"
AwaitingChunkDrain(k) == k.pc = "drain_chunk"
AwaitingClose(k) == k.pc \in {"wait_wclosed", "wait_rclosed"}
AtFourPoints(k) ==
    AwaitingBytes(k) \/ AwaitingDrain(k) \/ AwaitingHandler(k) \/ AwaitingChunkDrain(k)

\* A task past its read has parsed and resolved in the same run, and has
\* called the handler it resolved to; a synchronous handler has also
\* completed and its response (or the 500) is in the writer
ResolvedAndCalledAtOnce(k) ==
    /\ (PastRead(k) /\ k.got_buffer /\ parse_http_request(k.req_buffer).ok) => k.resolved
    /\ (k.resolved /\ k.route_value.kind \in {"func", "tuple"}) =>
          /\ Len(k.calls) = 1
          /\ LastCall(k).func = k.route_value.func
          /\ (~AwaitingHandler(k) => Len(k.out) >= 2)
          /\ (AwaitingHandler(k) => is_async(LastCall(k).func))

RunningForever(k) == k.pc = "h_running"

\* C23: from the moment a matched handler that never awaits and never returns
\* has started, no connection task takes a step and no connection is
\* accepted; while a handler that awaits is suspended, a client can be
\* accepted, and every other connection that has been read goes on to its
\* end (unless a never-returning handler starts in the meantime).
C23_StarvationHazard ==
    /\ [][(\E c \in Tasks : RunningForever(conn[c])) => conn' = conn]_vars
    /\ [](\A c \in Tasks : \A d \in Tasks \ {c} :
            (AwaitingHandler(conn[c]) /\ NoTask(conn[d])) => ENABLED Accept(d))
    /\ \A c \in Tasks : \A d \in Tasks \ {c} :
            (AwaitingHandler(conn[c]) /\ PastRead(conn[d]) /\ ~AwaitingHandler(conn[d]))
                ~> (Stopped(conn[d]) \/ ~EventLoopFree)

C23_Witness ==
    /\ RunningForever(conn["c1"])
    /\ LastCall(conn["c1"]).func = "spin"
    /\ conn["c1"].out = <<>>
    /\ AwaitingDrain(conn["c2"])
    /\ conn["c2"].calls # <<>>
    /\ LastCall(conn["c2"]).func = "get_slow"


\* C24: a handler defined as a coroutine is awaited (the task suspends in the
\* call until the handler completes) and a plain handler is called directly
\* (the task never suspends in the call); nothing has been written to the
\* connection while the handler has not completed; the coroutine handler and
\* the plain handler that both return 'Hello!' give the same response.
C24_AwaitedOrCalledThenWritten ==
    /\ [](\A c \in Conns :
            LET k == conn[c]
            IN  k.calls # <<>> =>
                  /\ AwaitingHandler(k) => is_async(LastCall(k).func) /\ k.out = <<>>
                  /\ ~is_async(LastCall(k).func) => ~AwaitingHandler(k)
                  /\ (BodyComplete(k) /\ LastCall(k).func \in {"hello", "hello_async"})
                        => Sent(k) = RespHello)
    /\ [][\A c \in Conns :
            ( /\ conn[c].calls = <<>>
              /\ conn'[c].calls # <<>>
              /\ is_async(LastCall(conn'[c]).func)
              /\ ~HandlerRaised(conn'[c]) )
            => AwaitingHandler(conn'[c]) /\ conn'[c].out = <<>>]_vars

C24_Witness ==
    \E c \in Conns :
        /\ conn[c].pc = "done"
        /\ conn[c].calls # <<>>
        /\ LastCall(conn[c]).func = "hello_async"
        /\ Sent(conn[c]) = RespHello
        /\ Closed(conn[c])


\* The lines of a buffer and the space-separated tokens of its first line
BufferLines(req_buffer) == Split(req_buffer, CRLF)
RequestLineTokens(req_buffer) == Split(BufferLines(req_buffer)[1], <<" ">>)

\* C25: a request whose first line does not split into exactly three
\* space-separated tokens is a parse failure: the client receives the 400
\* response, and no route is resolved and no handler called for it.
C25_RequestLineThreeTokens ==
    \A c \in Conns :
        LET k == conn[c]
        IN  ( /\ PastRead(k)
              /\ k.got_buffer
              /\ Len(RequestLineTokens(k.req_buffer)) # 3 )
            =>  /\ ~k.resolved
                /\ k.calls = <<>>
                /\ Sent(k) = Resp400


\* No line after the request line is blank: the header lines are not terminated
NoBlankLine(req_buffer) ==
    \A i \in 2..Len(BufferLines(req_buffer)) : BufferLines(req_buffer)[i] # <<>>

\* C26: a request buffer with no blank line after its header lines is a parse
\* failure: the client receives the 400 response, no route is resolved and
\* no handler is called (none sees the last header line or the request line
\* as the body), and the connection ends drained and closed.
C26_UnterminatedHeadersGive400 ==
    \A c \in Conns :
        LET k == conn[c]
        IN  ( /\ PastRead(k)
              /\ k.got_buffer
              /\ NoBlankLine(k.req_buffer) )
            =>  /\ ~k.resolved
                /\ k.calls = <<>>
                /\ Sent(k) = Resp400
                /\ k.pc # "crashed"
                /\ (k.pc = "done" => Closed(k))


\* The query string of a buffer whose request line has three tokens and a '?'
\* in its target
HasQueryString(req_buffer) ==
    /\ \A i \in 1..Len(req_buffer) : req_buffer[i] # BadByte
    /\ Len(RequestLineTokens(req_buffer)) = 3
    /\ Contains(RequestLineTokens(req_buffer)[2], <<"?">>)
QueryStringOf(req_buffer) == SplitMax(RequestLineTokens(req_buffer)[2], <<"?">>, 1)[2]

\* The mapping of a query string: each '&' segment split at its first '='
\* only, a segment without '=' keyed whole with the empty string
RECURSIVE FirstEqualsLoop(_, _)
FirstEqualsLoop(params, query) ==
    IF params = <<>> THEN query
    ELSE LET param == Head(params)
             kv == SplitMax(param, <<"=">>, 1)
         IN  FirstEqualsLoop(Tail(params),
                 IF Len(kv) = 1 THEN DictSet(query, param, <<>>)
                                ELSE DictSet(query, kv[1], kv[2]))
SplitAtFirstEquals(query_string) ==
    FirstEqualsLoop(Split(query_string, <<"&">>), EmptyDict)

\* C27: a request whose target holds a query string parses, and its query is
\* the '&' segments each split at its first '=' only: a=b=c gives key 'a'
\* with value 'b=c', a segment without '=' gives the segment with the value ''.
C27_QuerySplitAtFirstEquals ==
    \A c \in Conns :
        LET k == conn[c]
        IN  ( /\ PastRead(k)
              /\ k.got_buffer
              /\ HasQueryString(k.req_buffer) )
            =>  /\ k.req.ok
                /\ k.req.query = SplitAtFirstEquals(QueryStringOf(k.req_buffer))
                /\ Sent(k) # Resp400


\* A write that is a status line; a write that is a header block
IsStatusLine(w) == \E code \in StatusCodes : w = http_status_line(VInt(code))
IsHeaderBlock(w) ==
    /\ OccursAt(w, HdrConnectionClose \o CRLF, 1)
    /\ EndsWith(w, CRLF \o CRLF)

\* One response, in order: the first write is a status line, the second a
\* header block, and no later write is either
OneResponse(k) ==
    /\ Len(k.out) >= 2
    /\ IsStatusLine(k.out[1])
    /\ IsHeaderBlock(k.out[2])
    /\ \A i \in 2..Len(k.out) : ~IsStatusLine(k.out[i])
    /\ \A i \in 3..Len(k.out) : ~IsHeaderBlock(k.out[i])

\* C28: every connection whose task has ended has been written exactly one
\* response, a status line, then a header block, then the body; on no
\* connection are both a handler called and a static file looked up, or a
\* handler called twice, or a second status line or header block written;
\* and nothing is written to a connection once its writer is closed.
C28_OneResponseOneDispatch ==
    /\ [](\A c \in Conns :
            LET k == conn[c]
            IN  /\ Len(k.calls) <= 1
                /\ k.calls = <<>> \/ k.stats = <<>>
                /\ Len(k.stats) <= 2
                /\ k.out # <<>> => OneResponse(k)
                /\ Stopped(k) => OneResponse(k) /\ k.w_closed)
    /\ [][\A c \in Conns :
            (conn[c].w_closed /\ conn'[c].w_closed) => conn'[c].out = conn[c].out]_vars


\* The bracketed tokens of a path, by position: from a '<' to the next '>'
\* with no bracket in between
BracketSpans(url_path) ==
    { <<i, j>> \in (1..Len(url_path)) \X (1..Len(url_path)) :
        /\ i < j
        /\ url_path[i] = "<"
        /\ url_path[j] = ">"
        /\ \A n \in (i + 1)..(j - 1) : url_path[n] \notin {"<", ">"} }
KnownMacroSpans(url_path) ==
    { sp \in BracketSpans(url_path) : Slice(url_path, sp[1], sp[2]) \in MacroTokens }
HasUnknownToken(url_path) == BracketSpans(url_path) # KnownMacroSpans(url_path)
RejectedPath(url_path) ==
    HasUnknownToken(url_path) \/ Cardinality(KnownMacroSpans(url_path)) > 1
OneMacroPath(url_path) ==
    ~HasUnknownToken(url_path) /\ Cardinality(KnownMacroSpans(url_path)) = 1
\* The path with its one macro replaced by the macro's sub-pattern
Substituted(url_path) ==
    LET sp == CHOOSE x \in KnownMacroSpans(url_path) : TRUE
    IN  Slice(url_path, 1, sp[1] - 1)
          \o regex_macros(Slice(url_path, sp[1], sp[2]))
          \o Slice(url_path, sp[2] + 1, Len(url_path))

\* C29: a registration whose path holds a bracketed token that is no known
\* macro, or more than one macro, fails and leaves the route table as it was;
\* a registration whose path holds exactly one known macro puts, for each of
\* its methods, the handler under the method and the path with the macro
\* replaced by its sub-pattern, which has one capture group.
C29_BadMacroLeavesTable ==
    [][\A call \in RouteCalls :
          registered' = Append(registered, call) =>
            /\ RejectedPath(call.url_path) =>
                  /\ ~RoutePath(call.url_path).ok
                  /\ routes' = routes
            /\ OneMacroPath(call.url_path) =>
                  /\ \A i \in 1..Len(call.methods) :
                        \E j \in 1..Len(routes') :
                            routes'[j] = [key |-> Upper(call.methods[i]) \o Substituted(call.url_path),
                                          func |-> call.func]
                  /\ Cardinality({n \in 1..Len(Substituted(call.url_path)) :
                                     Substituted(call.url_path)[n] = "("}) = 1]_vars

C29_Witness ==
    /\ Len(registered) = 2
    /\ registered[1] = RouteCall(PathGpioInt, <<GET>>, "get_gpio")
    /\ registered[2] \in {RouteCall(PathTwoMacros, <<GET>>, "get_gpio"),
                          RouteCall(PathUnknownMacro, <<GET>>, "get_gpio")}
    /\ routes = << [key |-> KeyGpioInt, func |-> "get_gpio"] >>

=============================================================================
